---- MODULE Spec2Model ----
(***************************************************************************)
(* A model of the cipher engines of makodaa/data-encryption (TwoFish,      *)
(* IDEA, ChaCha20, DES) and of the calls that drive them.                  *)
(*                                                                         *)
(* Numbers.  The TypeScript sources compute on bigint.  TLC's integers are *)
(* 32 bits wide, so a bigint is modelled as the sequence of its base-256   *)
(* digits, least significant first, without high-order zero digits (the    *)
(* value 0 is the empty sequence).  Values the code keeps below 2^17       *)
(* (bytes, nibbles, IDEA's 16-bit words, indices) are plain integers.      *)
(***************************************************************************)
EXTENDS Integers, Sequences, FiniteSets, TLC

VARIABLES
    pc,          \* position of the running script or call
    engine,      \* the cipher engine the call runs
    variant,     \* "traced" (algorithms/) or "plain" (algorithms/presentation/)
    passphrase,  \* the key argument of the call (Undefined when omitted)
    nonce,       \* the nonce argument of the call
    resolvedKey, \* the passphrase the call resolved and returns
    hashedKey,   \* the working key (a bigint)
    plain,       \* the input of the first call
    cipher,      \* the output of the first call, input of the second
    recovered,   \* the output of the second call
    page,        \* the fields of the page and the outcome of the last click
    calls        \* the engine calls in flight, one record per caller

vars == <<pc, engine, variant, passphrase, nonce, resolvedKey, hashedKey,
          plain, cipher, recovered, page, calls>>

-----------------------------------------------------------------------------
(* bigint arithmetic on digit sequences                                    *)

(* The element of a one-element set.  { Op(v) : v \in {e} } applies Op to *)
(* the value of e, so The({...}) is Op(e) with e computed first.           *)
The(S) == CHOOSE x \in S : TRUE

Max(a, b) == IF a >= b THEN a ELSE b

Min(a, b) == IF a <= b THEN a ELSE b

(* The bits of two nibbles combined: exclusive or. *)
Xor4 ==
    [a \in 0..15 |-> [b \in 0..15 |->
        ((a + b) % 2)
        + 2 * (((a \div 2) + (b \div 2)) % 2)
        + 4 * (((a \div 4) + (b \div 4)) % 2)
        + 8 * (((a \div 8) + (b \div 8)) % 2)]]

(* The bits of two nibbles combined: and. *)
And4 ==
    [a \in 0..15 |-> [b \in 0..15 |->
        ((a % 2) * (b % 2))
        + 2 * (((a \div 2) % 2) * ((b \div 2) % 2))
        + 4 * (((a \div 4) % 2) * ((b \div 4) % 2))
        + 8 * (((a \div 8) % 2) * ((b \div 8) % 2))]]

(* a ^ b, a & b, a | b on integers below 2^16. *)
Xor8(a, b) == 16 * Xor4[a \div 16][b \div 16] + Xor4[a % 16][b % 16]

And8(a, b) == 16 * And4[a \div 16][b \div 16] + And4[a % 16][b % 16]

Or8(a, b) == a + b - And8(a, b)

Xor16(a, b) == 256 * Xor8(a \div 256, b \div 256) + Xor8(a % 256, b % 256)

(* A digit sequence without its high-order zero digits. *)
Norm(x) ==
    LET top == { i \in 1..Len(x) : x[i] # 0 }
        n == IF top = {} THEN 0 ELSE CHOOSE i \in top : \A j \in top : j <= i
    IN  SubSeq(x, 1, n)

Digit(x, i) == IF i >= 1 /\ i <= Len(x) THEN x[i] ELSE 0

(* An integer below 2^31 as a bigint, and back. *)
RECURSIVE Big(_)
Big(n) == IF n = 0 THEN <<>> ELSE <<n % 256>> \o Big(n \div 256)

RECURSIVE Num(_)
Num(x) == IF x = <<>> THEN 0 ELSE x[1] + 256 * Num(Tail(x))

(* x ^ y, x & y, x | y *)
BitXor(x, y) ==
    Norm([i \in 1..Max(Len(x), Len(y)) |-> Xor8(Digit(x, i), Digit(y, i))])

BitAnd(x, y) ==
    Norm([i \in 1..Min(Len(x), Len(y)) |-> And8(x[i], y[i])])

BitOr(x, y) ==
    Norm([i \in 1..Max(Len(x), Len(y)) |-> Or8(Digit(x, i), Digit(y, i))])

(* x >> n *)
Shr(x, n) ==
    LET q == n \div 8
        r == n % 8
        lo == 2 ^ r
        hi == 2 ^ (8 - r)
        y == IF q >= Len(x) THEN <<>> ELSE SubSeq(x, q + 1, Len(x))
    IN  IF r = 0 THEN y
        ELSE Norm([i \in 1..Len(y) |->
                     (y[i] \div lo) + (Digit(y, i + 1) % lo) * hi])

(* x << n *)
Shl(x, n) ==
    LET q == n \div 8
        r == n % 8
        lo == 2 ^ r
        hi == 2 ^ (8 - r)
        y == IF r = 0 THEN x
             ELSE Norm([i \in 1..(Len(x) + 1) |->
                          ((Digit(x, i) % hi) * lo) + (Digit(x, i - 1) \div hi)])
    IN  IF y = <<>> THEN y ELSE [i \in 1..q |-> 0] \o y

(* x + y *)
RECURSIVE AddCarry(_, _, _, _)
AddCarry(x, y, i, c) ==
    IF i > Max(Len(x), Len(y)) THEN (IF c = 0 THEN <<>> ELSE <<c>>)
    ELSE LET s == Digit(x, i) + Digit(y, i) + c
         IN  <<s % 256>> \o AddCarry(x, y, i + 1, s \div 256)

Add(x, y) == Norm(AddCarry(x, y, 1, 0))

(* (1 << n) - 1 *)
Mask(n) == [i \in 1..(n \div 8) |-> 255] \o
           (IF n % 8 = 0 THEN <<>> ELSE <<2 ^ (n % 8) - 1>>)

(* The bytes of a sequence in the opposite order. *)
Reverse(s) == SubSeq([i \in 1..Len(s) |-> s[Len(s) + 1 - i]], 1, Len(s))

(* A bigint written as its bytes, most significant first (a hex literal). *)
Hex(bytes) == Norm(Reverse(bytes))

(* 32-bit values: four bytes, least significant first.  The code keeps    *)
(* these values below 2^32 by masking, so the width is fixed here.         *)
Word(x) == <<Digit(x, 1), Digit(x, 2), Digit(x, 3), Digit(x, 4)>>

(* a ^ b on 32-bit values *)
Xor32(a, b) ==
    <<Xor8(a[1], b[1]), Xor8(a[2], b[2]), Xor8(a[3], b[3]), Xor8(a[4], b[4])>>

(* (a + b) & 0xFFFFFFFF *)
Add32(a, b) ==
    LET lo == a[1] + 256 * a[2] + b[1] + 256 * b[2]
        hi == a[3] + 256 * a[4] + b[3] + 256 * b[4] + (lo \div 65536)
    IN  <<lo % 256, (lo \div 256) % 256, hi % 256, (hi \div 256) % 256>>

-----------------------------------------------------------------------------
(* Passphrases, hashing and key generation: src/src/utils.ts               *)

(* The key argument of a call: <<>> when it is omitted, <<s>> for a string s. *)
Undefined == <<>>

(* aggregateBytes(bytes): output = (output << 8) | bytes[i], in order. *)
aggregateBytes(bytes) == Hex(bytes)

(* crypto.subtle.digest("SHA-256", new TextEncoder().encode(key)), given as *)
(* the digests of the strings the model uses.  encode(undefined) encodes   *)
(* the empty string.                                                       *)
Digest(key) ==
    CASE key = "" ->
           <<227, 176, 196, 66, 152, 252, 28, 20, 154, 251, 244, 200, 153, 111,
             185, 36, 39, 174, 65, 228, 100, 155, 147, 76, 164, 149, 153, 27,
             120, 82, 184, 85>>
      [] key = "k1" ->
           <<106, 185, 241, 235, 143, 125, 51, 136, 244, 249, 213, 134, 246, 110,
             153, 253, 84, 8, 13, 242, 196, 70, 240, 229, 134, 104, 176, 156, 8,
             161, 109, 208>>
      [] key = "k2" ->
           <<1, 95, 126, 107, 197, 174, 175, 72, 55, 36, 8, 158, 146, 82, 204, 19,
             181, 9, 81, 166, 182, 148, 18, 82, 39, 101, 207, 244, 215, 128, 48,
             110>>
      [] key = "0f8fad5bd9cb469fa16570867728950e" ->
           <<218, 178, 197, 191, 34, 34, 97, 207, 244, 192, 114, 123, 84, 49, 194,
             218, 109, 248, 195, 161, 241, 140, 15, 225, 53, 240, 169, 8, 125,
             205, 248, 11>>
      [] key = "7c9e6679742540de944be07fc1f90ae7" ->
           <<105, 191, 91, 13, 106, 133, 127, 114, 127, 179, 115, 194, 238, 19, 99,
             139, 9, 249, 185, 64, 49, 56, 52, 90, 169, 168, 245, 38, 210, 105,
             248, 141>>
      [] key = "1000000000000000000" ->
           <<74, 227, 138, 68, 209, 50, 251, 96, 111, 225, 37, 211, 42, 33, 75,
             110, 5, 185, 219, 112, 225, 150, 198, 62, 197, 211, 105, 73, 94, 37,
             138, 233>>
      [] key = "100000000000000000" ->
           <<49, 179, 63, 255, 227, 81, 201, 200, 215, 66, 188, 173, 241, 14, 148,
             241, 150, 225, 240, 98, 43, 111, 180, 232, 148, 199, 13, 248, 72,
             212, 216, 53>>

hashKeyBySHA256(key) ==
    aggregateBytes(Digest(IF key = Undefined THEN "" ELSE key[1]))

(* crypto.randomUUID() without its dashes: any of the strings it can give. *)
random128BitKey ==
    {"0f8fad5bd9cb469fa16570867728950e", "7c9e6679742540de944be07fc1f90ae7"}

(* key || random128BitKey(): the strings the expression can give.  An      *)
(* omitted key and the empty string are falsy.                             *)
OrElse(key, generated) ==
    IF key = Undefined \/ key = <<"">> THEN generated ELSE {key[1]}

-----------------------------------------------------------------------------
(* The page: a message is encrypted, then the ciphertext is decrypted with *)
(* the passphrase the encryption gave back.                                *)

(* The page before the first click: the form as it was at the last click, *)
(* the alert of that click, what its engine call resolved to and the       *)
(* value passed to it, and the output fields.                              *)
InitialPage ==
    [form |-> <<>>, alert |-> "", called |-> <<>>, passed |-> <<>>, thrown |-> FALSE,
     processHolder |-> <<>>, inputResult |-> <<>>, keyResult |-> "",
     keyHashResult |-> <<>>, outputResult |-> <<>>,
     inputType |-> "", outputType |-> ""]

(* No call: the frame of a caller that has not called yet. *)
IdleCall ==
    [stage |-> "idle", engine |-> "none", type |-> "", input |-> <<>>, key |-> <<>>,
     nonce |-> <<>>, resolvedKey |-> "", hashedKey |-> <<>>, output |-> <<>>,
     returned |-> 0, consumed |-> <<>>, firstBlock |-> <<>>]

Init ==
    /\ pc = "idle"
    /\ engine = "none"
    /\ variant = "traced"
    /\ passphrase = Undefined
    /\ nonce = <<>>
    /\ resolvedKey = ""
    /\ hashedKey = <<>>
    /\ plain = <<>>
    /\ cipher = <<>>
    /\ recovered = <<>>
    /\ page = InitialPage
    /\ calls = <<IdleCall, IdleCall>>

(* The passphrases typed by the user. *)
Passphrases == {<<"k1">>, <<"k2">>}

(* The two copies of each engine: the one that records its steps and the  *)
(* one under algorithms/presentation.                                      *)
Variants == {"traced", "plain"}

(* The key arguments of the encrypt calls: a passphrase, and for the       *)
(* engines whose key is optional no key and the empty string.              *)
KeyArguments(v) ==
    IF v = "traced" THEN Passphrases \cup {Undefined, <<"">>} ELSE Passphrases

VariantKeys == UNION { { <<v, key>> : key \in KeyArguments(v) } : v \in Variants }

(* The key argument of the decrypt call that follows an encrypt call. *)
DecryptKey == IF variant = "traced" THEN <<resolvedKey>> ELSE passphrase

(* The strings the key resolution of variant v can give for a key         *)
(* argument: key || <a generated key> in the traced engines, the key       *)
(* itself in the plain ones.                                               *)
Resolve(v, key, generated) ==
    IF v = "traced" THEN OrElse(key, generated)
    ELSE {IF key = Undefined THEN "" ELSE key[1]}

(* TwoFish: src/src/algorithms/twofish.ts (traced) and                     *)
(* src/src/algorithms/presentation/twofish.ts (plain)                      *)

BIT_128 == Mask(128)

BIT_32 == Mask(32)

k == 2

MATRIX_mds ==
    << <<1, 239, 91, 91>>,
       <<91, 239, 239, 1>>,
       <<239, 91, 1, 239>>,
       <<239, 1, 239, 91>> >>

MATRIX_rs ==
    << <<1, 164, 85, 135, 90, 88, 219, 158>>,
       <<164, 86, 130, 243, 30, 198, 104, 229>>,
       <<2, 161, 252, 193, 71, 174, 61, 25>>,
       <<164, 85, 135, 90, 88, 219, 158, 3>> >>

SUBSTITUTION_q0 ==
    << <<8, 1, 7, 13, 6, 15, 3, 2, 0, 11, 5, 9, 14, 12, 10, 4>>,
       <<14, 12, 11, 8, 1, 2, 3, 5, 15, 4, 10, 6, 7, 0, 9, 13>>,
       <<11, 10, 5, 14, 6, 13, 9, 0, 12, 8, 15, 3, 2, 4, 7, 1>>,
       <<13, 7, 15, 4, 1, 2, 6, 14, 9, 11, 3, 0, 8, 5, 12, 10>> >>

SUBSTITUTION_q1 ==
    << <<2, 8, 11, 13, 15, 7, 6, 14, 3, 1, 9, 4, 0, 10, 12, 5>>,
       <<1, 14, 2, 11, 4, 12, 3, 7, 6, 13, 10, 5, 15, 9, 0, 8>>,
       <<4, 12, 7, 5, 1, 6, 9, 10, 0, 14, 13, 8, 2, 11, 3, 15>>,
       <<11, 9, 5, 1, 12, 3, 13, 14, 6, 4, 7, 15, 2, 0, 8, 10>> >>

(* The irreducible polynomials x^8+x^6+x^3+x^2+1 and x^8+x^6+x^5+x^3+1. *)
RS_POLYNOMIAL == 333

MDS_POLYNOMIAL == 361

(* ((block << s) | (block >> (size - s))) & ((1 << size) - 1), for a block *)
(* of blockSize / 8 bytes, least significant first, below 2^blockSize.     *)
cyclicallyLeftShift(block, blockSize, shiftAmount) ==
    LET n == blockSize \div 8
        q == shiftAmount \div 8
        r == shiftAmount % 8
    IN  SubSeq([i \in 1..n |->
                  ((block[((i - 1 - q + n) % n) + 1] * (2 ^ r)) % 256)
                  + (block[((i - 2 - q + 2 * n) % n) + 1] \div (2 ^ (8 - r)))],
               1, n)

ROTL(block, shiftAmount) == cyclicallyLeftShift(block, 32, shiftAmount)

(* ((block >> s) | ((block & ((1 << s) - 1)) << (size - s)))               *)
(*   & ((1 << size) - 1), on the same representation.                      *)
cyclicallyRightShift(block, blockSize, shiftAmount) ==
    LET n == blockSize \div 8
        q == shiftAmount \div 8
        r == shiftAmount % 8
    IN  SubSeq([i \in 1..n |->
                  (block[((i - 1 + q) % n) + 1] \div (2 ^ r))
                  + ((block[((i + q) % n) + 1] % (2 ^ r)) * (2 ^ (8 - r)))],
               1, n)

ROTR(block, shiftAmount) == cyclicallyRightShift(block, 32, shiftAmount)

(* cyclicallyRightShift(block, 4, shiftAmount) on a nibble held as an integer. *)
ROTR4(block, shiftAmount) ==
    ((block \div (2 ^ shiftAmount))
     + ((block % (2 ^ shiftAmount)) * (2 ^ (4 - shiftAmount)))) % 16

(* extractBytesFromBlob(blob, count): the bytes of blob, most significant  *)
(* first, at least count of them (count = 0 stands for an omitted count).  *)
extractBytesFromBlob(blob, count) ==
    LET n == Max(Len(blob), count)
    IN  SubSeq([i \in 1..n |-> Digit(blob, n + 1 - i)], 1, n)

(* bytesOfSingle(block, count): the bytes of block, least significant      *)
(* first, at least count of them.                                          *)
bytesOfSingle(block, count) ==
    LET n == Max(Len(Norm(block)), count)
    IN  SubSeq([i \in 1..n |-> Digit(block, i)], 1, n)

bytesOfGroup(blocks, count) ==
    SubSeq([i \in 1..Len(blocks) |-> bytesOfSingle(blocks[i], count)],
           1, Len(blocks))

(* p[4i] | p[4i+1] << 8 | p[4i+2] << 16 | p[4i+3] << 24, for i = 0..3 *)
littleEndianConversion(p) ==
    << <<p[1], p[2], p[3], p[4]>>, <<p[5], p[6], p[7], p[8]>>,
       <<p[9], p[10], p[11], p[12]>>, <<p[13], p[14], p[15], p[16]>> >>

(* (C[i / 4] >> 8 (i % 4)) & 0xFF, for i = 0..15 *)
inverseLittleEndianConversion(C) == C[1] \o C[2] \o C[3] \o C[4]

RECURSIVE multiplyGF2_8Loop(_, _, _, _)
multiplyGF2_8Loop(a, b, irreduciblePolynomial, product) ==
    IF b > 0
    THEN LET product1 == IF b % 2 # 0 THEN Xor8(product, a) ELSE product
             a1 == a * 2
             a2 == IF (a1 \div 256) % 2 # 0
                   THEN Xor16(a1, irreduciblePolynomial) ELSE a1
         IN  multiplyGF2_8Loop(a2, b \div 2, irreduciblePolynomial, product1)
    ELSE product

(* The products of the loop for the coefficients of the MDS matrix, worked *)
(* out once: mdsProducts[a + 1][b + 1] for a in the matrix, b a byte.      *)
mdsProducts ==
    SubSeq([a \in 1..256 |->
               IF \E i, j \in 1..4 : MATRIX_mds[i][j] = a - 1
               THEN SubSeq([b \in 1..256 |->
                               multiplyGF2_8Loop(a - 1, b - 1, MDS_POLYNOMIAL, 0)],
                           1, 256)
               ELSE <<>>],
           1, 256)

(* The loop reducing by the Reed-Solomon polynomial whatever polynomial it *)
(* is given.                                                               *)
multiplyGF2_8_OnePolynomial(a, b, irreduciblePolynomial) ==
    multiplyGF2_8Loop(a, b, RS_POLYNOMIAL, 0)

multiplyGF2_8(a, b, irreduciblePolynomial) ==
    IF irreduciblePolynomial = MDS_POLYNOMIAL /\ mdsProducts[a + 1] # <<>>
    THEN mdsProducts[a + 1][b + 1]
    ELSE multiplyGF2_8Loop(a, b, irreduciblePolynomial, 0)

(* The value standing for the Error multiplyMatrixToVector throws. *)
MatrixError == <<-1>>

RECURSIVE MatrixRow(_, _, _, _)
MatrixRow(row, vector, polynomial, j) ==
    IF j > Len(vector) THEN 0
    ELSE Xor8(multiplyGF2_8(row[j], vector[j], polynomial),
              MatrixRow(row, vector, polynomial, j + 1))

multiplyMatrixToVector_LongerOnly(matrix, vector, polynomial) ==
    IF Len(matrix[1]) < Len(vector) THEN MatrixError
    ELSE SubSeq([i \in 1..Len(matrix) |->
                    MatrixRow(matrix[i], vector, polynomial, 1)],
                1, Len(matrix))

multiplyMatrixToVector(matrix, vector, polynomial) ==
    IF Len(matrix[1]) # Len(vector) THEN MatrixError
    ELSE SubSeq([i \in 1..Len(matrix) |->
                    MatrixRow(matrix[i], vector, polynomial, 1)],
                1, Len(matrix))

rs(vector) == multiplyMatrixToVector(MATRIX_rs, vector, RS_POLYNOMIAL)

mds(vector) == multiplyMatrixToVector(MATRIX_mds, vector, MDS_POLYNOMIAL)

inputWhiten(blocks, keySchedule) ==
    <<Xor32(blocks[1], keySchedule[1][1]), Xor32(blocks[2], keySchedule[1][2]),
      Xor32(blocks[3], keySchedule[1][3]), Xor32(blocks[4], keySchedule[1][4])>>

outputWhiten(blocks, keySchedule) ==
    <<Xor32(blocks[1], keySchedule[1][5]), Xor32(blocks[2], keySchedule[1][6]),
      Xor32(blocks[3], keySchedule[1][7]), Xor32(blocks[4], keySchedule[1][8])>>

(* The mixing step without the term 8a. *)
qMix_WithoutEightA(ab, ta, tb) ==
    <<ta[Xor8(ab[1], ab[2]) + 1],
      tb[(Xor8(ab[1], ROTR4(ab[2], 1)) % 16) + 1]>>

(* [a, b] = [a ^ b, (a ^ ROTR4(b, 1) ^ (8 * a)) % 16]; [a, b] = [ta(a), tb(b)] *)
qMix(ab, ta, tb) ==
    <<ta[Xor8(ab[1], ab[2]) + 1],
      tb[(Xor8(Xor8(ab[1], ROTR4(ab[2], 1)), 8 * ab[1]) % 16) + 1]>>

(* 16 * b + a *)
qJoin(ab) == 16 * ab[2] + ab[1]

qSubstitute(block, tables) ==
    qJoin(qMix(qMix(<<block \div 16, block % 16>>, tables[1], tables[2]),
               tables[3], tables[4]))

(* The two byte permutations, worked out once for the 256 bytes. *)
q0Values == SubSeq([x \in 1..256 |-> qSubstitute(x - 1, SUBSTITUTION_q0)], 1, 256)

q1Values == SubSeq([x \in 1..256 |-> qSubstitute(x - 1, SUBSTITUTION_q1)], 1, 256)

q0(x) == q0Values[x + 1]

q1(x) == q1Values[x + 1]

(* The three substitution layers of H on the bytes x of X and l of L: per *)
(* byte, q(q(q(x) ^ l[1]) ^ l[0]) with the q's of the code's three rows.   *)
HBytes(x, l) ==
    <<q1(Xor8(q0(Xor8(q0(x[1]), l[2][1])), l[1][1])),
      q0(Xor8(q0(Xor8(q1(x[2]), l[2][2])), l[1][2])),
      q1(Xor8(q1(Xor8(q0(x[3]), l[2][3])), l[1][3])),
      q0(Xor8(q1(Xor8(q1(x[4]), l[2][4])), l[1][4]))>>

H(X, L) ==
    The({ mds(y) : y \in {HBytes(bytesOfSingle(X, 4), bytesOfGroup(L, 4))} })

(* x & 0xFF on a 32-bit value *)
LowByte(x) == <<x[1], 0, 0, 0>>

(* f0 = (t0 + t1 + K0) & 0xFF, f1 = (t0 + 2 * t1 + K1) & 0xFF *)
FSums(t0, t1, K0, K1) ==
    <<LowByte(Add32(Add32(t0, t1), K0)),
      LowByte(Add32(Add32(t0, Add32(t1, t1)), K1))>>

F(r0, r1, round, keySchedule) ==
    The({ FSums(t0, t1, keySchedule[1][2 * round + 8 + 1],
                keySchedule[1][2 * round + 9 + 1]) :
            t0 \in {H(r0, keySchedule[2])},
            t1 \in {H(ROTL(r1, 8), keySchedule[2])} })

groupData(data, groupSize) ==
    SubSeq([g \in 1..((Len(data) + groupSize - 1) \div groupSize) |->
               SubSeq(data, (g - 1) * groupSize + 1, Min(g * groupSize, Len(data)))],
           1, (Len(data) + groupSize - 1) \div groupSize)

(* M[i] = the sum over j = 0..3 of m[4i + j] << 8j *)
KeyWord(m, i) == <<m[4 * i + 1], m[4 * i + 2], m[4 * i + 3], m[4 * i + 4]>>

(* S.unshift(si[0] | si[1] << 8 | si[2] << 16 | si[3] << 24), for i = 0..k-1 *)
RECURSIVE SBoxKeys(_, _)
SBoxKeys(vectors, i) ==
    IF i >= k THEN <<>>
    ELSE SBoxKeys(vectors, i + 1) \o <<rs(vectors[i + 1])>>

rho == 16843009

(* K2i = (A + B) & BIT_32, K2i1 = ROTL((A + 2 * B) & BIT_32, 9) *)
SubKeySums(A, B) == <<Add32(A, B), ROTL(Add32(A, Add32(B, B)), 9)>>

(* The subkeys K[2i] and K[2i + 1]. *)
SubKeyPair(mEven, mOdd, i) ==
    SubKeySums(H(Word(Big(2 * i * rho)), mEven),
               ROTL(H(Word(Big((2 * i + 1) * rho)), mOdd), 8))

(* generateKeySchedule(key) = <<K, S>>: the 40 subkeys and the S-box words. *)
(* The 40 subkeys from the even and the odd key words. *)
SubKeys(mEven, mOdd) ==
    SubSeq([j \in 1..40 |->
               SubKeyPair(mEven, mOdd, (j - 1) \div 2)[((j - 1) % 2) + 1]],
           1, 40)

(* mEven (parity 0) or mOdd (parity 1) of the 2k key words M of the bytes m. *)
KeyWords(m, parity) ==
    SubSeq([i \in 1..k |-> KeyWord(m, 2 * (i - 1) + parity)], 1, k)

KeyScheduleOfBytes(m) ==
    <<SubKeys(KeyWords(m, 0), KeyWords(m, 1)), SBoxKeys(groupData(m, 8), 0)>>

(* generateKeySchedule(key) = <<K, S>>: the 40 subkeys and the S-box words. *)
generateKeySchedule(key) == KeyScheduleOfBytes(extractBytesFromBlob(key, 16))

(* output |= outputBytes[15 - i] << 8i, for i = 0..15 *)
BlockOfBytes(outputBytes) == Hex(outputBytes)

(* [r0, r1, r2, r3] = [ROTR(r2 ^ f0, 1), ROTL(r3, 1) ^ f1, r0, r1] *)
encryptMix(r, f) ==
    <<ROTR(Xor32(r[3], f[1]), 1), Xor32(ROTL(r[4], 1), f[2]), r[1], r[2]>>

encryptRound(r, round, keySchedule) ==
    The({ encryptMix(r, f) : f \in {F(r[1], r[2], round, keySchedule)} })

(* for (r = 0; r < 16; ++r): the count rounds from round first on, in      *)
(* order; the earlier half is worked out before the later one.             *)
RECURSIVE encryptRounds(_, _, _, _)
encryptRounds(r, first, count, keySchedule) ==
    IF count = 1 THEN encryptRound(r, first, keySchedule)
    ELSE The({ encryptRounds(half, first + count \div 2, count - count \div 2,
                             keySchedule) :
                 half \in {encryptRounds(r, first, count \div 2, keySchedule)} })

(* [r2, r3, r0, r1] *)
SwapHalves(r) == <<r[3], r[4], r[1], r[2]>>

encryptBlock(block, keySchedule) ==
    The({ BlockOfBytes(inverseLittleEndianConversion(
              outputWhiten(SwapHalves(r), keySchedule))) :
            r \in {encryptRounds(
                      inputWhiten(littleEndianConversion(
                                      extractBytesFromBlob(block, 16)),
                                  keySchedule),
                      0, 16, keySchedule)} })

(* [r0, r1, r2, r3] = [ROTL(r2, 1) ^ f0, ROTR(r3 ^ f1, 1), r0, r1] *)
decryptMix(r, f) ==
    <<Xor32(ROTL(r[3], 1), f[1]), ROTR(Xor32(r[4], f[2]), 1), r[1], r[2]>>

decryptRound(r, round, keySchedule) ==
    The({ decryptMix(r, f) : f \in {F(r[1], r[2], round, keySchedule)} })

(* for (r = 15; r >= 0; --r): the count rounds from round first down, in   *)
(* order.                                                                  *)
RECURSIVE decryptRounds(_, _, _, _)
decryptRounds(r, first, count, keySchedule) ==
    IF count = 1 THEN decryptRound(r, first, keySchedule)
    ELSE The({ decryptRounds(half, first - count \div 2, count - count \div 2,
                             keySchedule) :
                 half \in {decryptRounds(r, first, count \div 2, keySchedule)} })

(* decryptBlock with the whitenings in the order encryptBlock applies them: *)
(* inputWhiten first, outputWhiten last.                                   *)
decryptBlock_WhitenAsEncrypt(block, keySchedule) ==
    The({ BlockOfBytes(inverseLittleEndianConversion(
              outputWhiten(SwapHalves(r), keySchedule))) :
            r \in {decryptRounds(
                      inputWhiten(littleEndianConversion(
                                      extractBytesFromBlob(block, 16)),
                                  keySchedule),
                      15, 16, keySchedule)} })

decryptBlock(block, keySchedule) ==
    The({ BlockOfBytes(inverseLittleEndianConversion(
              inputWhiten(SwapHalves(r), keySchedule))) :
            r \in {decryptRounds(
                      outputWhiten(littleEndianConversion(
                                       extractBytesFromBlob(block, 16)),
                                   keySchedule),
                      15, 16, keySchedule)} })

(* The block functions of presentation/twofish.ts: a round leaves r0 and  *)
(* r1 in place and then exchanges the halves, and the last exchange is     *)
(* undone after the loop.                                                  *)

(* [r0, r1, r2, r3] = [r0, r1, ROR(r2 ^ f0, 1n), ROL(r3, 1n) ^ f1] *)
presentation_encryptMix(r, f) ==
    <<r[1], r[2], ROTR(Xor32(r[3], f[1]), 1), Xor32(ROTL(r[4], 1), f[2])>>

(* The round without [r0, r1, r2, r3] = [r2, r3, r0, r1]. *)
presentation_encryptRound_NoSwap(r, round, keySchedule) ==
    The({ presentation_encryptMix(r, f) : f \in {F(r[1], r[2], round, keySchedule)} })

presentation_encryptRound(r, round, keySchedule) ==
    The({ SwapHalves(presentation_encryptMix(r, f)) :
            f \in {F(r[1], r[2], round, keySchedule)} })

RECURSIVE presentation_encryptRounds(_, _, _, _)
presentation_encryptRounds(r, first, count, keySchedule) ==
    IF count = 1 THEN presentation_encryptRound(r, first, keySchedule)
    ELSE The({ presentation_encryptRounds(half, first + count \div 2,
                                          count - count \div 2, keySchedule) :
                 half \in {presentation_encryptRounds(r, first, count \div 2,
                                                      keySchedule)} })

presentation_encryptBlock(block, keySchedule) ==
    The({ BlockOfBytes(inverseLittleEndianConversion(
              outputWhiten(SwapHalves(r), keySchedule))) :
            r \in {presentation_encryptRounds(
                      inputWhiten(littleEndianConversion(
                                      extractBytesFromBlob(block, 16)),
                                  keySchedule),
                      0, 16, keySchedule)} })

(* [r0, r1, r2, r3] = [r0, r1, ROL(r2, 1n) ^ f0, ROR(r3 ^ f1, 1n)] *)
presentation_decryptMix(r, f) ==
    <<r[1], r[2], Xor32(ROTL(r[3], 1), f[1]), ROTR(Xor32(r[4], f[2]), 1)>>

presentation_decryptRound(r, round, keySchedule) ==
    The({ SwapHalves(presentation_decryptMix(r, f)) :
            f \in {F(r[1], r[2], round, keySchedule)} })

RECURSIVE presentation_decryptRounds(_, _, _, _)
presentation_decryptRounds(r, first, count, keySchedule) ==
    IF count = 1 THEN presentation_decryptRound(r, first, keySchedule)
    ELSE The({ presentation_decryptRounds(half, first - count \div 2,
                                          count - count \div 2, keySchedule) :
                 half \in {presentation_decryptRounds(r, first, count \div 2,
                                                      keySchedule)} })

presentation_decryptBlock(block, keySchedule) ==
    The({ BlockOfBytes(inverseLittleEndianConversion(
              inputWhiten(SwapHalves(r), keySchedule))) :
            r \in {presentation_decryptRounds(
                      outputWhiten(littleEndianConversion(
                                       extractBytesFromBlob(block, 16)),
                                   keySchedule),
                      15, 16, keySchedule)} })

(* while (blob > 0) { blocks.unshift(blob & mask); blob >>= n }, with each *)
(* step's values worked out before the next step.                          *)
(* The loop with its test after the pass: do { ... } while (blob > 0). *)
RECURSIVE extractBlocksLoop_TestedAfter(_, _, _)
extractBlocksLoop_TestedAfter(blob, n, blocks) ==
    The({ IF rest = <<>> THEN longer
          ELSE extractBlocksLoop_TestedAfter(rest, n, longer) :
            rest \in {Shr(blob, n)},
            longer \in {<<BitAnd(blob, Mask(n))>> \o blocks} })

RECURSIVE extractBlocksLoop(_, _, _)
extractBlocksLoop(blob, n, blocks) ==
    IF blob # <<>>
    THEN The({ extractBlocksLoop(rest, n, longer) :
                 rest \in {Shr(blob, n)},
                 longer \in {<<BitAnd(blob, Mask(n))>> \o blocks} })
    ELSE blocks

(* for (const block of blocks) hex = (hex << n) | block *)
(* joinBlocksLoop without hex <<= n: the blocks are or-ed onto each other. *)
joinBlocksLoop_NoShift(blocks, n, i, hex) ==
    IF i > Len(blocks) THEN hex
    ELSE BitOr(IF Len(blocks) > i THEN blocks[i + 1] ELSE hex, blocks[i])

RECURSIVE joinBlocksLoop(_, _, _, _)
joinBlocksLoop(blocks, n, i, hex) ==
    IF i > Len(blocks) THEN hex
    ELSE The({ joinBlocksLoop(blocks, n, i + 1, next) :
                 next \in {BitOr(Shl(hex, n), blocks[i])} })

extract128BitBytesFromBLOB(blob) == extractBlocksLoop(blob, 128, <<>>)

extractBLOBFrom128BitBytes(blocks) == joinBlocksLoop(blocks, 128, 1, <<>>)

-----------------------------------------------------------------------------
(* TwoFish calls: encrypt and decrypt of src/src/algorithms/twofish.ts and *)
(* of src/src/algorithms/presentation/twofish.ts                           *)

(* blocks.map((block) => encryptBlock(block, keySchedule)) *)
encryptBlocks(blocks, keySchedule) ==
    SubSeq([i \in 1..Len(blocks) |-> encryptBlock(blocks[i], keySchedule)],
           1, Len(blocks))

(* blocks.map((block) => decryptBlock(block, keySchedule)) *)
decryptBlocks(blocks, keySchedule) ==
    SubSeq([i \in 1..Len(blocks) |-> decryptBlock(blocks[i], keySchedule)],
           1, Len(blocks))

(* The final output of encrypt for the working key. *)
twofish_encrypt(messageHex, workingKey) ==
    The({ extractBLOBFrom128BitBytes(outputs) :
            outputs \in { encryptBlocks(blocks, keySchedule) :
                            keySchedule \in {generateKeySchedule(workingKey)},
                            blocks \in {extract128BitBytesFromBLOB(messageHex)} } })

(* The final output of decrypt for the working key. *)
twofish_decrypt(messageHex, workingKey) ==
    The({ extractBLOBFrom128BitBytes(outputs) :
            outputs \in { decryptBlocks(blocks, keySchedule) :
                            keySchedule \in {generateKeySchedule(workingKey)},
                            blocks \in {extract128BitBytesFromBLOB(messageHex)} } })

(* encrypt and decrypt of presentation/twofish.ts for the working key *)
presentation_twofish_encrypt(messageHex, workingKey) ==
    The({ extractBLOBFrom128BitBytes(outputs) :
            outputs \in { SubSeq([i \in 1..Len(blocks) |->
                                     presentation_encryptBlock(blocks[i], keySchedule)],
                                 1, Len(blocks)) :
                            keySchedule \in {generateKeySchedule(workingKey)},
                            blocks \in {extract128BitBytesFromBLOB(messageHex)} } })

presentation_twofish_decrypt(messageHex, workingKey) ==
    The({ extractBLOBFrom128BitBytes(outputs) :
            outputs \in { SubSeq([i \in 1..Len(blocks) |->
                                     presentation_decryptBlock(blocks[i], keySchedule)],
                                 1, Len(blocks)) :
                            keySchedule \in {generateKeySchedule(workingKey)},
                            blocks \in {extract128BitBytesFromBLOB(messageHex)} } })

-----------------------------------------------------------------------------
-----------------------------------------------------------------------------
(* TwoFish                                                                 *)

MaxBlocks == 2

(* A message of Len(seq) blocks, each picked from blocks. *)
TwoFishMessage(seq, blocks) ==
    The({ extractBLOBFrom128BitBytes(chosen) :
            chosen \in {SubSeq([i \in 1..Len(seq) |-> blocks[seq[i]]], 1, Len(seq))} })

(* The blocks messages are made of: 0, 1, 2^128 - 1 and the block whose    *)
(* ciphertext is 0.                                                        *)
TwoFishMessageBlocks(workingKey) ==
    The({ <<<<>>, <<1>>, BIT_128, decryptBlock(<<>>, keySchedule)>> :
            keySchedule \in {generateKeySchedule(workingKey)} })

TwoFishMessages(workingKey) ==
    { TwoFishMessage(seq, blocks) :
        seq \in UNION { [1..n -> 1..4] : n \in 0..MaxBlocks },
        blocks \in {TwoFishMessageBlocks(workingKey)} }

(* The encrypt calls: the copy of the engine, the key argument, the        *)
(* passphrase it resolves to, the working key and the message.             *)
TwoFishCallsFor(v, key, rk, hk) ==
    { [variant |-> v, key |-> key, resolvedKey |-> rk, hashedKey |-> hk,
       messageHex |-> x] : x \in TwoFishMessages(hk) }

TwoFishCalls ==
    UNION { TwoFishCallsFor(c[1], c[2], c[3],
                            BitAnd(hashKeyBySHA256(<<c[3]>>), BIT_128)) :
              c \in UNION { { <<vk[1], vk[2], rk>> :
                                rk \in Resolve(vk[1], vk[2], random128BitKey) } :
                              vk \in VariantKeys } }

(* The block and blob functions of the copy v of the engine. *)
encryptBlockOf(v, block, key) ==
    The({ IF v = "plain" THEN presentation_encryptBlock(block, keySchedule)
          ELSE encryptBlock(block, keySchedule) :
            keySchedule \in {generateKeySchedule(key)} })

decryptBlockOf(v, block, key) ==
    The({ IF v = "plain" THEN presentation_decryptBlock(block, keySchedule)
          ELSE decryptBlock(block, keySchedule) :
            keySchedule \in {generateKeySchedule(key)} })

encryptOf(v, messageHex, workingKey) ==
    IF v = "plain" THEN presentation_twofish_encrypt(messageHex, workingKey)
    ELSE twofish_encrypt(messageHex, workingKey)

decryptOf(v, messageHex, workingKey) ==
    IF v = "plain" THEN presentation_twofish_decrypt(messageHex, workingKey)
    ELSE twofish_decrypt(messageHex, workingKey)

(* encrypt(messageHex, key) *)
TwoFishEncrypt ==
    /\ pc = "idle"
    /\ \E call \in TwoFishCalls :
          /\ cipher' = encryptOf(call.variant, call.messageHex, call.hashedKey)
          /\ variant' = call.variant
          /\ passphrase' = call.key
          /\ resolvedKey' = call.resolvedKey
          /\ hashedKey' = call.hashedKey
          /\ plain' = call.messageHex
    /\ pc' = "encrypted"
    /\ engine' = "twofish"
    /\ UNCHANGED <<nonce, recovered, page, calls>>

(* decrypt(messageHex, key) on the ciphertext and the returned passphrase *)
TwoFishDecrypt ==
    /\ pc = "encrypted"
    /\ engine = "twofish"
    /\ \E rk \in Resolve(variant, DecryptKey, random128BitKey) :
          /\ recovered' = decryptOf(variant, cipher,
                                    BitAnd(hashKeyBySHA256(<<rk>>), BIT_128))
          /\ hashedKey' = BitAnd(hashKeyBySHA256(<<rk>>), BIT_128)
    /\ pc' = "decrypted"
    /\ UNCHANGED <<engine, variant, passphrase, nonce, resolvedKey, plain, cipher,
                   page, calls>>

(* The 128-bit keys and the blocks of the block-level calls. *)
TwoFishKeys ==
    {<<>>, BIT_128} \cup { BitAnd(hashKeyBySHA256(key), BIT_128) : key \in Passphrases }

TwoFishBlocks ==
    {<<>>, <<1>>, BIT_128, Shl(<<1>>, 127), Shl(<<1>>, 64), Big(255), BIT_32}

(* encryptBlock(block, generateKeySchedule(key)) *)
TwoFishEncryptBlock ==
    /\ pc = "idle"
    /\ \E v \in Variants, key \in TwoFishKeys, block \in TwoFishBlocks :
          /\ cipher' = encryptBlockOf(v, block, key)
          /\ variant' = v
          /\ hashedKey' = key
          /\ plain' = block
    /\ pc' = "blockEncrypted"
    /\ engine' = "twofish"
    /\ UNCHANGED <<passphrase, nonce, resolvedKey, recovered, page, calls>>

(* decryptBlock(block, generateKeySchedule(key)) on the encrypted block *)
TwoFishDecryptBlock ==
    /\ pc = "blockEncrypted"
    /\ engine = "twofish"
    /\ recovered' = decryptBlockOf(variant, cipher, hashedKey)
    /\ pc' = "blockDecrypted"
    /\ UNCHANGED <<engine, variant, passphrase, nonce, resolvedKey, hashedKey, plain, cipher,
                   page, calls>>

(* The vectors of the matrix products: of 0 to MaxVectorLength bytes. *)
MaxVectorLength == 9

TwoFishVectors ==
    UNION { { SubSeq([i \in 1..n |-> 0], 1, n), SubSeq([i \in 1..n |-> i], 1, n),
              SubSeq([i \in 1..n |-> 255 - i], 1, n) } : n \in 0..MaxVectorLength }

(* rs(vector) and mds(vector): multiplyMatrixToVector on MATRIX.rs and on  *)
(* MATRIX.mds; hashedKey holds the matrix.                                 *)
TwoFishMultiplyMatrix ==
    /\ pc = "idle"
    /\ \E vector \in TwoFishVectors, matrix \in {"rs", "mds"} :
       \E product \in {IF matrix = "rs" THEN rs(vector) ELSE mds(vector)} :
          /\ cipher' = product
          /\ pc' = IF product = MatrixError THEN "thrown" ELSE "matrixApplied"
          /\ plain' = vector
          /\ hashedKey' = IF matrix = "rs" THEN MATRIX_rs ELSE MATRIX_mds
    /\ engine' = "twofish"
    /\ UNCHANGED <<variant, passphrase, nonce, resolvedKey, recovered, page, calls>>

NextTwoFish ==
    \/ TwoFishEncrypt
    \/ TwoFishDecrypt
    \/ TwoFishEncryptBlock
    \/ TwoFishDecryptBlock
    \/ TwoFishMultiplyMatrix

SpecTwoFish == Init /\ [][NextTwoFish]_vars

(* C9: a block encrypted by encryptBlock under a schedule from            *)
(* generateKeySchedule is given back by decryptBlock under that schedule, *)
(* which undoes the output whitening first, runs the rounds from 15 down   *)
(* to 0 and undoes the input whitening last.                               *)
C9_BlockRoundTrip ==
    pc = "blockDecrypted" /\ engine = "twofish" => recovered = plain

C9_Witness ==
    /\ pc = "blockDecrypted"
    /\ engine = "twofish"
    /\ plain = BIT_128
    /\ cipher # plain
    /\ recovered = plain

(* C1: decrypt(encrypt(x, key).finalOutput, key) = x for every passphrase  *)
(* and every message x.                                                    *)
C1_BlobRoundTrip ==
    pc = "decrypted" /\ engine = "twofish" => recovered = plain


(* The vectors generateKeySchedule gives to rs for a key, and the vector H  *)
(* gives to mds for a word X under the S-box words L.                       *)
rsVectors(key) == groupData(extractBytesFromBlob(key, 16), 8)

mdsVector(X, L) == HBytes(bytesOfSingle(X, 4), bytesOfGroup(L, 4))

(* The words of a block, as F is given them. *)
WordsOfBlock(block) ==
    <<Word(block), Word(Shr(block, 32)), Word(Shr(block, 64)), Word(Shr(block, 96))>>

(* C16: the matrix product is the error exactly when the rows of the       *)
(* matrix and the vector differ in length, and otherwise one byte per row; *)
(* in the block calls the vectors given to rs have the 8 bytes of a row of *)
(* MATRIX.rs and the vectors given to mds the 4 of a row of MATRIX.mds, so *)
(* that no product there is the error.                                     *)
C16_MatrixDimensions ==
    /\ engine = "twofish" /\ pc \in {"thrown", "matrixApplied"} =>
          /\ (pc = "thrown") = (Len(hashedKey[1]) # Len(plain))
          /\ (cipher = MatrixError) = (pc = "thrown")
          /\ pc = "matrixApplied" =>
                /\ Len(cipher) = Len(hashedKey)
                /\ \A i \in 1..Len(cipher) : cipher[i] \in 0..255
    /\ engine = "twofish" /\ pc = "blockEncrypted" =>
          /\ \A i \in 1..k :
                /\ Len(rsVectors(hashedKey)[i]) = Len(MATRIX_rs[1])
                /\ rs(rsVectors(hashedKey)[i]) # MatrixError
          /\ \A X \in {WordsOfBlock(plain)[i] : i \in 1..4}
                       \cup {WordsOfBlock(cipher)[i] : i \in 1..4} :
                \A L \in {generateKeySchedule(hashedKey)[2]} :
                    /\ Len(mdsVector(X, L)) = Len(MATRIX_mds[1])
                    /\ mds(mdsVector(X, L)) # MatrixError

(* A vector of 4 bytes was given to the matrix of rows of 8. *)
C16_Witness ==
    /\ engine = "twofish"
    /\ pc = "thrown"
    /\ hashedKey = MATRIX_rs
    /\ Len(plain) = 4
    /\ cipher = MatrixError

(* A block call went through both matrices. *)
C16_BlockWitness ==
    engine = "twofish" /\ pc = "blockEncrypted" /\ hashedKey = BIT_128 /\ plain = <<1>>

(* The schedule of a working key has 40 subkeys and 2 S-box words. *)
scheduleShape(key) ==
    The({ Len(keySchedule[1]) = 40 /\ Len(keySchedule[2]) = k :
            keySchedule \in {generateKeySchedule(key)} })

(* C28: for every 128-bit hashed key and every blob the plain variant has  *)
(* the key schedule of the traced one (40 subkeys, 2 S-box words) and      *)
(* computes the same encrypted and decrypted blocks and blobs.             *)
C28_VariantEquivalence ==
    /\ pc = "blockEncrypted" /\ engine = "twofish"
       => /\ scheduleShape(hashedKey)
          /\ cipher = encryptBlockOf("traced", plain, hashedKey)
          /\ cipher = encryptBlockOf("plain", plain, hashedKey)
    /\ pc = "blockDecrypted" /\ engine = "twofish"
       => /\ recovered = decryptBlockOf("traced", cipher, hashedKey)
          /\ recovered = decryptBlockOf("plain", cipher, hashedKey)
    /\ pc = "encrypted" /\ engine = "twofish"
       => /\ cipher = encryptOf("traced", plain, hashedKey)
          /\ cipher = encryptOf("plain", plain, hashedKey)
    /\ pc = "decrypted" /\ engine = "twofish"
       => /\ recovered = decryptOf("traced", cipher, hashedKey)
          /\ recovered = decryptOf("plain", cipher, hashedKey)

(* The plain variant decrypted a message of two blocks under a hashed      *)
(* passphrase to what the traced one gives.                                *)
C28_Witness ==
    /\ pc = "decrypted"
    /\ engine = "twofish"
    /\ variant = "plain"
    /\ Len(cipher) > 16
    /\ recovered # <<>>
    /\ recovered = twofish_decrypt(cipher, hashedKey)

(* The plain variant encrypted a block that is not 0. *)
C28_BlockWitness ==
    /\ pc = "blockEncrypted"
    /\ engine = "twofish"
    /\ variant = "plain"
    /\ plain = BIT_128
    /\ cipher = encryptBlockOf("traced", plain, hashedKey)
-----------------------------------------------------------------------------
(* The field multiplication and the byte substitutions of TwoFish          *)

(* multiplyGF2_8(a, b, irreduciblePolynomial) *)
GfMultiply ==
    /\ pc = "idle"
    /\ \E a \in 0..255, b \in 0..255, polynomial \in {RS_POLYNOMIAL, MDS_POLYNOMIAL} :
          /\ cipher' = multiplyGF2_8(a, b, polynomial)
          /\ plain' = <<a, b>>
          /\ hashedKey' = polynomial
    /\ pc' = "gfMultiplied"
    /\ engine' = "twofish"
    /\ UNCHANGED <<variant, passphrase, nonce, resolvedKey, recovered, page, calls>>

(* q0(x) and q1(x) *)
QSubstitute ==
    /\ pc = "idle"
    /\ \E x \in 0..255 :
          \/ cipher' = q0(x) /\ plain' = <<0, x>>
          \/ cipher' = q1(x) /\ plain' = <<1, x>>
    /\ pc' = "substituted"
    /\ engine' = "twofish"
    /\ UNCHANGED <<variant, passphrase, nonce, resolvedKey, hashedKey, recovered, page,
                   calls>>

NextTwoFishParts ==
    \/ GfMultiply
    \/ QSubstitute

SpecTwoFishParts == Init /\ [][NextTwoFishParts]_vars

(* The product of two polynomials over GF(2) of degree below 8, bit i      *)
(* being the coefficient of x^i: the sum of the a x^i for the bits i of b. *)
RECURSIVE carrylessProduct(_, _)
carrylessProduct(a, b) ==
    IF b = 0 THEN 0
    ELSE Xor16(IF b % 2 = 1 THEN a ELSE 0, 2 * carrylessProduct(a, b \div 2))

(* The remainder of a polynomial of degree at most bit modulo a polynomial *)
(* p of degree 8.                                                          *)
RECURSIVE remainderModulo(_, _, _)
remainderModulo(x, p, bit) ==
    IF bit < 8 THEN x
    ELSE remainderModulo(IF (x \div (2 ^ bit)) % 2 = 1
                         THEN Xor16(x, p * (2 ^ (bit - 8))) ELSE x,
                         p, bit - 1)

(* C26: for all bytes a, b and both polynomials multiplyGF2_8(a, b, p) is  *)
(* in 0..255 and is the carry-less product of a and b reduced modulo p; it *)
(* is commutative, has 1 as identity and gives 0 when an operand is 0.     *)
C26_FieldProduct ==
    pc = "gfMultiplied" =>
        /\ cipher \in 0..255
        /\ cipher = remainderModulo(carrylessProduct(plain[1], plain[2]), hashedKey, 14)
        /\ cipher = multiplyGF2_8(plain[2], plain[1], hashedKey)
        /\ plain[1] = 1 => cipher = plain[2]
        /\ plain[2] = 1 => cipher = plain[1]
        /\ plain[1] = 0 \/ plain[2] = 0 => cipher = 0

(* A product that needed reducing, under the MDS polynomial. *)
C26_Witness ==
    /\ pc = "gfMultiplied"
    /\ hashedKey = MDS_POLYNOMIAL
    /\ plain = <<239, 91>>
    /\ carrylessProduct(239, 91) > 255
    /\ cipher = remainderModulo(carrylessProduct(239, 91), MDS_POLYNOMIAL, 14)

(* The substitution of the state. *)
qOfState(x) == IF plain[1] = 0 THEN q0(x) ELSE q1(x)

(* C30: q0(x) and q1(x) are in 0..255 for every byte x, and no two bytes   *)
(* have the same q0 or the same q1.                                        *)
C30_QPermutations ==
    pc = "substituted" =>
        /\ cipher \in 0..255
        /\ cipher = qOfState(plain[2])
        /\ \A y \in 0..255 : y # plain[2] => qOfState(y) # cipher

(* q1 of the byte 255. *)
C30_Witness ==
    pc = "substituted" /\ plain = <<1, 255>> /\ cipher = q1(255) /\ cipher \in 0..255
-----------------------------------------------------------------------------
(* IDEA: the traced engine (src/unnamed/part_001) and the plain one        *)
(* (src/src/algorithms/presentation/idea.ts).  The two compute the same    *)
(* schedule and the same block transformation; the plain one calls the     *)
(* transformation encryptBlock and decryptBlock, the traced one            *)
(* processBlock.                                                           *)

(* ((block << shiftAmount) | (block >> (blockSize - shiftAmount))) & mask *)
cyclicLeftShift(block, blockSize, shiftAmount) ==
    BitAnd(BitOr(Shl(block, shiftAmount), Shr(block, blockSize - shiftAmount)),
           Mask(blockSize))

(* extractBitsIntoBlocks(block, blockSize, blockCount): the blockSize-bit  *)
(* pieces of block, most significant first, as integers; without a         *)
(* blockCount (0 here) the loop stops when the remaining value is 0, with  *)
(* one it also goes on until there are blockCount pieces.                  *)
extractBitsIntoBlocks(block, blockSize, blockCount) ==
    The({ SubSeq([i \in 1..n |->
                     Num(SubSeq([d \in 1..(blockSize \div 8) |->
                                    Digit(block, (n - i) * (blockSize \div 8) + d)],
                                1, blockSize \div 8))],
                 1, n) :
            n \in {Max((Len(block) * 8 + blockSize - 1) \div blockSize, blockCount)} })

(* (left + right) % (1n << 16n) *)
add(left, right) == (left + right) % 65536

(* (left * right) % 0x10001n, with the product taken in two parts so that  *)
(* no intermediate value passes 2^31.                                      *)
MulMod(left, right) ==
    (((left * (right \div 256)) % 65537) * 256 + left * (right % 256)) % 65537

multiply_ZeroAsZero(left, right) == MulMod(left, right) % 65536

multiply(left, right) ==
    IF left # 0 /\ right # 0 THEN MulMod(left, right) % 65536
    ELSE IF left # 0 \/ right # 0 THEN ((65537 - left - right) % 65537) % 65536
    ELSE 1

additiveInverse(value) == ((65536 - value) % 65536) % 65536

(* The value standing for the Error multiplicativeInverse throws. *)
NotInvertible == -1

(* while (newR !== 0n) { quotient = r / newR; ... } and the result *)
RECURSIVE multiplicativeInverseLoop(_, _, _, _)
multiplicativeInverseLoop(t, r, newT, newR) ==
    IF newR # 0
    THEN multiplicativeInverseLoop(newT, newR, t - (r \div newR) * newT,
                                   r - (r \div newR) * newR)
    ELSE IF r > 1 THEN NotInvertible
    ELSE IF t < 0 THEN t + 65537 ELSE t

multiplicativeInverse_Unreduced(value) ==
    IF value <= 1 THEN value ELSE multiplicativeInverseLoop(0, 65537, 1, value) - 65537

multiplicativeInverse(value) ==
    IF value <= 1 THEN value ELSE multiplicativeInverseLoop(0, 65537, 1, value)

(* The value standing for a call that never returns. *)
Hang == <<-2>>

(* while (subkeys.length < 52) { push the pieces of keyBits while there    *)
(* are fewer than 52; keyBits = cyclicLeftShift(keyBits, 128n, 25n) }.     *)
(* A pass that adds nothing and leaves keyBits as it was repeats for ever. *)
RECURSIVE contiguousKeys(_, _)
contiguousKeys(keyBits, subkeys) ==
    IF Len(subkeys) >= 52 THEN subkeys
    ELSE The({ IF subKeys = <<>> /\ rotated = keyBits THEN Hang
               ELSE contiguousKeys(rotated,
                                   SubSeq(subkeys \o subKeys, 1,
                                          Min(52, Len(subkeys) + Len(subKeys)))) :
                 subKeys \in {extractBitsIntoBlocks(keyBits, 16, 0)},
                 rotated \in {cyclicLeftShift(keyBits, 128, 25)} })

(* The group pushed for index i (from 0) of the inverse schedule; the      *)
(* filter drops the two entries read below index 0.                        *)
inverseGroup(subkeys, i) ==
    <<multiplicativeInverse(subkeys[i - 3 + 1]), additiveInverse(subkeys[i - 2 + 1]),
      additiveInverse(subkeys[i - 1 + 1]), multiplicativeInverse(subkeys[i + 1])>>
    \o (IF i - 5 >= 0 THEN <<subkeys[i - 5 + 1], subkeys[i - 4 + 1]>> ELSE <<>>)

(* The group pushed for index i (from 0) of the forward schedule; the      *)
(* filter drops the entries read past the end.                             *)
forwardGroup(subkeys, i) == SubSeq(subkeys, i + 1, Min(i + 6, Len(subkeys)))

groupsOf(subkeys, inverse) ==
    IF subkeys = Hang THEN Hang
    ELSE IF inverse
    THEN SubSeq([j \in 1..9 |-> inverseGroup(subkeys, Len(subkeys) - 1 - 6 * (j - 1))],
                1, 9)
    ELSE SubSeq([j \in 1..9 |-> forwardGroup(subkeys, 6 * (j - 1))], 1, 9)

ideaCreateKeySchedule(key, inverse) == groupsOf(contiguousKeys(key, <<>>), inverse)

(* y1 .. y4 of a round, and of the half round *)
processBlockKeyMix(x, z) ==
    <<multiply(x[1], z[1]), add(x[2], z[2]), add(x[3], z[3]), multiply(x[4], z[4])>>

(* <<y9, y10>> of a round *)
processBlockMulAdd(y, z) ==
    The({ The({ <<y9, add(y7, y9)>> :
                  y9 \in {multiply(add(Xor16(y[2], y[4]), y7), z[6])} }) :
            y7 \in {multiply(Xor16(y[1], y[3]), z[5])} })

(* [x1, x2, x3, x4] = [y11, y13, y12, y14] *)
processBlockMix(y, m) ==
    <<Xor16(y[1], m[1]), Xor16(y[2], m[2]), Xor16(y[3], m[1]), Xor16(y[4], m[2])>>

processBlockRound(x, z) ==
    The({ processBlockMix(y, processBlockMulAdd(y, z)) :
            y \in {processBlockKeyMix(x, z)} })

(* for (let i = 0; i < 8; ++i) *)
RECURSIVE processBlockRounds(_, _, _)
processBlockRounds(x, i, keySchedule) ==
    IF i >= 8 THEN x
    ELSE The({ processBlockRounds(next, i + 1, keySchedule) :
                 next \in {processBlockRound(x, keySchedule[i + 1])} })

(* (y1 << 48n) | (y2 << 32n) | (y3 << 16n) | y4 *)
processBlockOutput(y) ==
    Norm(<<y[4] % 256, y[4] \div 256, y[3] % 256, y[3] \div 256,
           y[2] % 256, y[2] \div 256, y[1] % 256, y[1] \div 256>>)

processBlock(block, keySchedule) ==
    The({ processBlockOutput(processBlockKeyMix(x, keySchedule[9])) :
            x \in {processBlockRounds(extractBitsIntoBlocks(block, 16, 4), 0,
                                      keySchedule)} })

extract64BitBlocksFromBLOB(hex) == extractBlocksLoop(hex, 64, <<>>)

extractBLOBFrom64BitBlocks(blocks) == joinBlocksLoop(blocks, 64, 1, <<>>)

(* blocks.map((b) => processBlock(b, keySchedule)) *)
processBlocks(blocks, keySchedule) ==
    SubSeq([i \in 1..Len(blocks) |-> processBlock(blocks[i], keySchedule)],
           1, Len(blocks))

(* The final output of encrypt (inverse FALSE) and of decrypt (inverse    *)
(* TRUE) for the working key.                                              *)
idea_crypt(messageHex, workingKey, inverse) ==
    The({ IF keySchedule = Hang THEN Hang
          ELSE The({ extractBLOBFrom64BitBlocks(outputs) :
                       outputs \in {processBlocks(extract64BitBlocksFromBLOB(messageHex),
                                                  keySchedule)} }) :
            keySchedule \in {ideaCreateKeySchedule(workingKey, inverse)} })

idea_encrypt(messageHex, workingKey) == idea_crypt(messageHex, workingKey, FALSE)

idea_decrypt(messageHex, workingKey) == idea_crypt(messageHex, workingKey, TRUE)

(* Math.floor((Math.random() + 10 ** 16) * 10).toString(): the sum rounds  *)
(* to 10^16 for every value of Math.random().                              *)
idea_random128BitKey == {"100000000000000000"}

-----------------------------------------------------------------------------
(* IDEA calls                                                              *)

(* A message of Len(seq) blocks, each picked from blocks. *)
IdeaMessage(seq, blocks) ==
    The({ extractBLOBFrom64BitBlocks(chosen) :
            chosen \in {SubSeq([i \in 1..Len(seq) |-> blocks[seq[i]]], 1, Len(seq))} })

(* The blocks messages are made of: 0, 1, 2^64 - 1 and the block whose     *)
(* ciphertext is 0.                                                        *)
IdeaMessageBlocks(workingKey) ==
    The({ <<<<>>, <<1>>, Mask(64), processBlock(<<>>, keySchedule)>> :
            keySchedule \in {ideaCreateKeySchedule(workingKey, TRUE)} })

IdeaMessages(workingKey) ==
    { IdeaMessage(seq, blocks) :
        seq \in UNION { [1..n -> 1..4] : n \in 0..MaxBlocks },
        blocks \in {IdeaMessageBlocks(workingKey)} }

IdeaCallsFor(v, key, rk, hk) ==
    { [variant |-> v, key |-> key, resolvedKey |-> rk, hashedKey |-> hk,
       messageHex |-> x] : x \in IdeaMessages(hk) }

IdeaCalls ==
    UNION { IdeaCallsFor(c[1], c[2], c[3],
                         BitAnd(hashKeyBySHA256(<<c[3]>>), BIT_128)) :
              c \in UNION { { <<vk[1], vk[2], rk>> :
                                rk \in Resolve(vk[1], vk[2], idea_random128BitKey) } :
                              vk \in VariantKeys } }

(* encrypt(messageHex, key) *)
IdeaEncrypt ==
    /\ pc = "idle"
    /\ \E call \in IdeaCalls :
          /\ cipher' = idea_encrypt(call.messageHex, call.hashedKey)
          /\ variant' = call.variant
          /\ passphrase' = call.key
          /\ resolvedKey' = call.resolvedKey
          /\ hashedKey' = call.hashedKey
          /\ plain' = call.messageHex
    /\ pc' = "encrypted"
    /\ engine' = "idea"
    /\ UNCHANGED <<nonce, recovered, page, calls>>

(* decrypt(messageHex, key) on the ciphertext and the returned passphrase *)
IdeaDecrypt ==
    /\ pc = "encrypted"
    /\ engine = "idea"
    /\ \E rk \in Resolve(variant, DecryptKey, idea_random128BitKey) :
          /\ recovered' = idea_decrypt(cipher, BitAnd(hashKeyBySHA256(<<rk>>), BIT_128))
          /\ hashedKey' = BitAnd(hashKeyBySHA256(<<rk>>), BIT_128)
    /\ pc' = "decrypted"
    /\ UNCHANGED <<engine, variant, passphrase, nonce, resolvedKey, plain, cipher,
                   page, calls>>

(* The 128-bit keys and the 64-bit blocks of the block-level calls. *)
IdeaKeys ==
    {<<>>, <<1>>, BIT_128, Shl(<<1>>, 127)}
        \cup { BitAnd(hashKeyBySHA256(key), BIT_128) : key \in Passphrases }

IdeaBlocks ==
    {<<>>, <<1>>, Mask(64), Shl(<<1>>, 63), Shl(<<1>>, 32), Big(65535),
     Shl(Big(65535), 16), Shl(<<1>>, 48)}

(* encryptBlock(block, createKeySchedule(key, { inverse: false })); the    *)
(* call does not return when the schedule is never completed.              *)
IdeaEncryptBlock ==
    /\ pc = "idle"
    /\ \E v \in Variants, key \in IdeaKeys, block \in IdeaBlocks :
       \E keySchedule \in {ideaCreateKeySchedule(key, FALSE)} :
          /\ IF keySchedule = Hang
             THEN /\ cipher' = Hang
                  /\ pc' = "hung"
             ELSE /\ cipher' = processBlock(block, keySchedule)
                  /\ pc' = "blockEncrypted"
          /\ variant' = v
          /\ hashedKey' = key
          /\ plain' = block
    /\ engine' = "idea"
    /\ UNCHANGED <<passphrase, nonce, resolvedKey, recovered, page, calls>>

(* decryptBlock(block, createKeySchedule(key, { inverse: true })) on the   *)
(* encrypted block                                                         *)
IdeaDecryptBlock ==
    /\ pc = "blockEncrypted"
    /\ engine = "idea"
    /\ recovered' = The({ processBlock(cipher, keySchedule) :
                            keySchedule \in {ideaCreateKeySchedule(hashedKey, TRUE)} })
    /\ pc' = "blockDecrypted"
    /\ UNCHANGED <<engine, variant, passphrase, nonce, resolvedKey, hashedKey, plain, cipher,
                   page, calls>>

NextIdea ==
    \/ IdeaEncrypt
    \/ IdeaDecrypt
    \/ IdeaEncryptBlock
    \/ IdeaDecryptBlock

SpecIdea == Init /\ [][NextIdea]_vars

(* C2: decrypt(encrypt(x, key).finalOutput, key) = x for every passphrase  *)
(* and every message x, the schedule being built with inverse false for    *)
(* encrypt and inverse true for decrypt.                                   *)
C2_BlobRoundTrip ==
    pc = "decrypted" /\ engine = "idea" => recovered = plain

(* Group j of the inverse schedule is the multiplicative and additive      *)
(* inverses of the first four subkeys of forward group 8 - j, followed for *)
(* j <= 7 by the fifth and sixth subkeys of forward group 7 - j.           *)
IdeaSchedulesInverse(forward, inverse) ==
    \A j \in 0..8 :
        inverse[j + 1] =
            <<multiplicativeInverse(forward[8 - j + 1][1]),
              additiveInverse(forward[8 - j + 1][2]),
              additiveInverse(forward[8 - j + 1][3]),
              multiplicativeInverse(forward[8 - j + 1][4])>>
            \o (IF j <= 7 THEN <<forward[7 - j + 1][5], forward[7 - j + 1][6]>>
                ELSE <<>>)

(* C8: for every 128-bit key and every 64-bit block, the block             *)
(* transformation under the forward schedule returns, the transformation   *)
(* under the inverse schedule gives the block back, and the inverse        *)
(* schedule is made of the inverses of the forward one, group 8 - j for    *)
(* group j.                                                                *)
C8_BlockRoundTrip ==
    /\ ~(pc = "hung" /\ engine = "idea")
    /\ pc = "blockDecrypted" /\ engine = "idea" => recovered = plain
    /\ pc = "blockEncrypted" /\ engine = "idea" =>
          IdeaSchedulesInverse(ideaCreateKeySchedule(hashedKey, FALSE),
                               ideaCreateKeySchedule(hashedKey, TRUE))

(* The part of C8 that the code keeps: the round trip and the inverse      *)
(* schedule for the keys whose schedule is completed.                      *)
C8_ReturnedRoundTrip ==
    /\ pc = "blockDecrypted" /\ engine = "idea" => recovered = plain
    /\ pc = "blockEncrypted" /\ engine = "idea" =>
          IdeaSchedulesInverse(ideaCreateKeySchedule(hashedKey, FALSE),
                               ideaCreateKeySchedule(hashedKey, TRUE))

-----------------------------------------------------------------------------
(* IDEA: the arithmetic, one round and the key schedule on their own       *)

(* The operands of multiply: the ends of the range, the values around the  *)
(* powers of two, and values whose products pass 2^31.                     *)
IdeaOperands ==
    {0, 1, 2, 3, 255, 256, 257, 4097, 21845, 32767, 32768, 32769, 43690, 46341, 65279,
     65534, 65535}

(* The words of a block and the six subkeys of a round. *)
IdeaRoundWords ==
    {<<0, 0, 0, 0>>, <<1, 2, 3, 4>>, <<65535, 0, 1, 32768>>, <<4660, 22136, 39612, 57072>>}

IdeaRoundKeys ==
    {<<0, 0, 0, 0, 0, 0>>, <<1, 2, 3, 4, 5, 6>>, <<65535, 32768, 1, 0, 257, 4097>>}

(* multiply(left, right) *)
IdeaMultiply ==
    /\ pc = "idle"
    /\ \E left \in IdeaOperands, right \in IdeaOperands :
          /\ plain' = <<left, right>>
          /\ cipher' = <<multiply(left, right)>>
    /\ pc' = "multiplied"
    /\ engine' = "idea"
    /\ UNCHANGED <<variant, passphrase, nonce, resolvedKey, hashedKey, recovered,
                   page, calls>>

(* multiplicativeInverse(value) for a subkey *)
IdeaMultiplicativeInverse ==
    /\ pc = "idle"
    /\ \E value \in 0..65535 :
          /\ plain' = <<value>>
          /\ cipher' = <<multiplicativeInverse(value)>>
    /\ pc' = "inverted"
    /\ engine' = "idea"
    /\ UNCHANGED <<variant, passphrase, nonce, resolvedKey, hashedKey, recovered,
                   page, calls>>

(* One pass of for (let i = 0; i < 8; ++i) in the block transformation. *)
IdeaRound ==
    /\ pc = "idle"
    /\ \E x \in IdeaRoundWords, z \in IdeaRoundKeys :
          /\ plain' = x
          /\ hashedKey' = z
          /\ cipher' = processBlockRound(x, z)
    /\ pc' = "round"
    /\ engine' = "idea"
    /\ UNCHANGED <<variant, passphrase, nonce, resolvedKey, recovered, page, calls>>

(* createKeySchedule(key, { inverse }): plain holds inverse as 0 or 1; the *)
(* call does not return when the schedule is never completed.              *)
IdeaCreateKeySchedule ==
    /\ pc = "idle"
    /\ \E key \in IdeaKeys, inverse \in BOOLEAN :
       \E keySchedule \in {ideaCreateKeySchedule(key, inverse)} :
          /\ cipher' = keySchedule
          /\ pc' = IF keySchedule = Hang THEN "hung" ELSE "scheduled"
          /\ hashedKey' = key
          /\ plain' = <<IF inverse THEN 1 ELSE 0>>
    /\ engine' = "idea"
    /\ UNCHANGED <<variant, passphrase, nonce, resolvedKey, recovered, page, calls>>

NextIdeaKeys ==
    \/ IdeaMultiply
    \/ IdeaMultiplicativeInverse
    \/ IdeaRound
    \/ IdeaCreateKeySchedule

SpecIdeaKeys == Init /\ [][NextIdeaKeys]_vars

(* C15: for every subkey value z the inverse v is in 0..65535 and          *)
(* multiply(z, v) = 1, and no inverse schedule holds the value that stands *)
(* for the error.                                                          *)
C15_InverseOfEverySubkey ==
    /\ pc = "inverted" =>
          /\ cipher[1] \in 0..65535
          /\ multiply(plain[1], cipher[1]) = 1
    /\ pc = "scheduled" /\ plain = <<1>> =>
          \A j \in 1..Len(cipher) : \A i \in 1..Len(cipher[j]) :
              cipher[j][i] # NotInvertible

(* The inverse of 65535, a value whose inverse the loop leaves negative. *)
C15_Witness ==
    pc = "inverted" /\ plain = <<65535>> /\ cipher = <<32768>>

(* An inverse schedule was built. *)
C15_ScheduleWitness ==
    pc = "scheduled" /\ plain = <<1>> /\ hashedKey = BIT_128

(* C17: createKeySchedule returns for every 128-bit key, with 9 groups,    *)
(* the first 8 of 6 subkeys and the last of 4, each subkey in 0..65535.    *)
C17_ScheduleTotal ==
    engine = "idea" /\ pc \in {"scheduled", "hung"} =>
        /\ pc = "scheduled"
        /\ Len(cipher) = 9
        /\ \A j \in 1..9 :
              /\ Len(cipher[j]) = IF j <= 8 THEN 6 ELSE 4
              /\ \A i \in 1..Len(cipher[j]) : cipher[j][i] \in 0..65535

(* The same for the keys other than 0. *)
C17_ScheduleOfNonZeroKey ==
    engine = "idea" /\ pc \in {"scheduled", "hung"} /\ hashedKey # <<>> =>
        /\ pc = "scheduled"
        /\ Len(cipher) = 9
        /\ \A j \in 1..9 :
              /\ Len(cipher[j]) = IF j <= 8 THEN 6 ELSE 4
              /\ \A i \in 1..Len(cipher[j]) : cipher[j][i] \in 0..65535

(* The register after c rotations by 25 bits, and the subkeys they give:   *)
(* subkey 8c + i is slice i, from the most significant end, of the key     *)
(* rotated left by 25c.                                                    *)
RECURSIVE rotatedRegister(_, _)
rotatedRegister(key, c) ==
    IF c = 0 THEN key ELSE cyclicLeftShift(rotatedRegister(key, c - 1), 128, 25)

slicedSubkeys(key) ==
    SubSeq([n \in 1..52 |->
               extractBitsIntoBlocks(rotatedRegister(key, (n - 1) \div 8), 16, 8)
                   [((n - 1) % 8) + 1]],
           1, 52)

RECURSIVE flattened(_, _)
flattened(groups, j) ==
    IF j > Len(groups) THEN <<>> ELSE groups[j] \o flattened(groups, j + 1)

(* C18: the subkeys of the forward schedule are, in order, the eight       *)
(* slices of the key, of the key rotated by 25, by 50, and so on.          *)
C18_SubkeyValues ==
    engine = "idea" /\ pc = "scheduled" /\ plain = <<0>> =>
        flattened(cipher, 1) = slicedSubkeys(hashedKey)

(* The same for the keys whose registers all have a most significant slice *)
(* other than 0.                                                           *)
C18_SubkeyValuesFullRegisters ==
    /\ engine = "idea" /\ pc = "scheduled" /\ plain = <<0>>
    /\ \A c \in 0..6 : Len(rotatedRegister(hashedKey, c)) >= 15
    => flattened(cipher, 1) = slicedSubkeys(hashedKey)

(* C19: the words a round passes on are Y1 ^ y9, Y3 ^ y9, Y2 ^ y10 and     *)
(* Y4 ^ y10, in this order.                                                *)
C19_RoundOrder ==
    engine = "idea" /\ pc = "round" =>
        cipher =
            The({ The({ <<Xor16(y[1], m[1]), Xor16(y[3], m[1]),
                          Xor16(y[2], m[2]), Xor16(y[4], m[2])>> :
                          m \in {processBlockMulAdd(y, hashedKey)} }) :
                    y \in {processBlockKeyMix(plain, hashedKey)} })

(* The words the code passes on: the second and the third the other way    *)
(* round.                                                                  *)
C19_RoundOrderOfCode ==
    engine = "idea" /\ pc = "round" =>
        cipher =
            The({ The({ <<Xor16(y[1], m[1]), Xor16(y[2], m[2]),
                          Xor16(y[3], m[1]), Xor16(y[4], m[2])>> :
                          m \in {processBlockMulAdd(y, hashedKey)} }) :
                    y \in {processBlockKeyMix(plain, hashedKey)} })

(* (left * right) mod 65537 by doubling, for operands up to 65536. *)
RECURSIVE productMod(_, _)
productMod(left, right) ==
    IF right = 0 THEN 0
    ELSE (2 * productMod(left, right \div 2) + (right % 2) * left) % 65537

(* x', which is 2^16 for x = 0 *)
Primed(x) == IF x = 0 THEN 65536 ELSE x

(* C20: multiply(a, b) is in 0..65535 and is (a' * b') mod 65537 mod 2^16, *)
(* where 0 stands for 2^16; with one operand 0 it is                       *)
(* (65537 - a - b) mod 65537 reduced to 16 bits, with both 0 it is 1.      *)
C20_Multiply ==
    engine = "idea" /\ pc = "multiplied" =>
        /\ cipher[1] \in 0..65535
        /\ cipher[1] = productMod(Primed(plain[1]), Primed(plain[2])) % 65536
        /\ plain[1] = 0 /\ plain[2] = 0 => cipher[1] = 1
        /\ (plain[1] = 0) # (plain[2] = 0) =>
              cipher[1] = ((65537 - plain[1] - plain[2]) % 65537) % 65536

(* A product with one operand 0, and one of two operands whose product     *)
(* passes 2^31.                                                            *)
C20_Witness ==
    /\ pc = "multiplied"
    /\ plain \in {<<0, 1>>, <<65535, 65535>>}
    /\ cipher \in {<<0>>, <<4>>}
-----------------------------------------------------------------------------
(* ChaCha20: the traced engine (src/unnamed/part_000, lines 1-245) and the *)
(* plain one (src/src/algorithms/presentation/chacha20.ts).  A 32-bit word *)
(* is the sequence of its 4 bytes, least significant first; the state is   *)
(* the sequence of its 16 words.                                           *)

(* (a + b) & 0xffffffffn *)
sum(a, b) == Add32(a, b)

(* (0xffffffffn & (a << b)) | (a >> (32n - b)), for a below 2^32 *)
chacha_ROTL(a, b) == cyclicallyLeftShift(a, 32, b)

(* state[a] = sum(state[a], state[b]), state[d] ^= state[a],               *)
(* state[d] = ROTL(state[d], r1); state[c] = sum(state[c], state[d]),      *)
(* state[b] ^= state[c], state[b] = ROTL(state[b], r2), on v = <<state[a], *)
(* state[b], state[c], state[d]>>.                                         *)
quarterRoundLines(v, r1, r2) ==
    The({ The({ The({ <<a, chacha_ROTL(Xor32(v[2], c), r2), c, d>> :
                        c \in {sum(v[3], d)} }) :
                  d \in {chacha_ROTL(Xor32(v[4], a), r1)} }) :
            a \in {sum(v[1], v[2])} })

quarterRound(state, a, b, c, d) ==
    The({ [state EXCEPT ![a + 1] = v[1], ![b + 1] = v[2],
                        ![c + 1] = v[3], ![d + 1] = v[4]] :
            v \in { quarterRoundLines(half, 8, 7) :
                     half \in {quarterRoundLines(<<state[a + 1], state[b + 1],
                                                   state[c + 1], state[d + 1]>>,
                                                 16, 12)} } })

(* The eight quarter rounds of one pass of the loop: four columns, four    *)
(* diagonals.                                                              *)
QUARTER_ROUNDS ==
    << <<0, 4, 8, 12>>, <<1, 5, 9, 13>>, <<2, 6, 10, 14>>, <<3, 7, 11, 15>>,
       <<0, 5, 10, 15>>, <<1, 6, 11, 12>>, <<2, 7, 8, 13>>, <<3, 4, 9, 14>> >>

(* for (let i = 0; i < 20; i += 2) { eight quarter rounds }: the count     *)
(* quarter rounds from the one numbered first on, in order; the earlier    *)
(* half is worked out before the later one.                                *)
RECURSIVE quarterRounds(_, _, _)
quarterRounds(state, first, count) ==
    IF count = 1
    THEN quarterRound(state, QUARTER_ROUNDS[(first % 8) + 1][1],
                      QUARTER_ROUNDS[(first % 8) + 1][2],
                      QUARTER_ROUNDS[(first % 8) + 1][3],
                      QUARTER_ROUNDS[(first % 8) + 1][4])
    ELSE The({ quarterRounds(half, first + count \div 2, count - count \div 2) :
                 half \in {quarterRounds(state, first, count \div 2)} })

addState(a, b) == SubSeq([i \in 1..Len(a) |-> sum(a[i], b[i])], 1, Len(a))

(* words(value, count): the 32-bit words of value, most significant first; *)
(* with a count (count > 0) zero words are put in front until there are    *)
(* count words, and words past the first count are dropped from the end.   *)
words(value, count) ==
    The({ SubSeq([i \in 1..n |->
                     <<Digit(value, 4 * (n - i) + 1), Digit(value, 4 * (n - i) + 2),
                       Digit(value, 4 * (n - i) + 3), Digit(value, 4 * (n - i) + 4)>>],
                 1, IF count > 0 THEN count ELSE n) :
            n \in {Max((Len(Norm(value)) + 3) \div 4, count)} })

(* The state before the rounds: the four constants, the key, the block     *)
(* counter and the nonce.                                                  *)
chaChaState(key, chachaNonce, count) ==
    << <<101, 120, 112, 97>>, <<110, 100, 32, 51>>, <<50, 45, 98, 121>>,
       <<116, 101, 32, 107>> >>
    \o words(key, 8) \o <<Word(count)>> \o words(chachaNonce, 3)

chaChaBlock(key, chachaNonce, count) ==
    The({ addState(state, quarterRounds(state, 0, 80)) :
            state \in {chaChaState(key, chachaNonce, count)} })

(* for (let byte of words(word, 4)) while (byte > 0) { yield byte & 0xFFn; *)
(* byte >>= 8n }: what the generator yields for one word of a block.       *)
yieldedOfWord(word) ==
    The({ Norm(w[1]) \o Norm(w[2]) \o Norm(w[3]) \o Norm(w[4]) :
            w \in {words(word, 4)} })

(* for (const word of block): what the generator yields for one block *)
RECURSIVE yieldedOfBlock(_, _)
yieldedOfBlock(block, i) ==
    IF i > Len(block) THEN <<>>
    ELSE yieldedOfWord(block[i]) \o yieldedOfBlock(block, i + 1)

(* The first n values keyStream(key, chachaNonce) yields from the block counter  *)
(* i on.                                                                   *)
RECURSIVE keyStream(_, _, _, _)
keyStream(key, chachaNonce, i, n) ==
    IF n <= 0 THEN <<>>
    ELSE The({ IF Len(bytes) >= n THEN SubSeq(bytes, 1, n)
               ELSE bytes \o keyStream(key, chachaNonce, i + 1, n - Len(bytes)) :
                 bytes \in {yieldedOfBlock(chaChaBlock(key, chachaNonce, Big(i)), 1)} })

(* The block counter of the generator's first block: for (let i = 1n; ...) *)
(* in the traced engine, let i = 0n in the plain one.                      *)
firstCounter(v) == IF v = "traced" THEN 1 ELSE 0

(* output.push(byte ^ keyByte) for each byte of the input *)
xorKeyStream(input, key, chachaNonce, v) ==
    The({ SubSeq([i \in 1..Len(input) |-> Xor8(input[i], keyBytes[i])],
                 1, Len(input)) :
            keyBytes \in {keyStream(key, chachaNonce, firstCounter(v), Len(input))} })

(* while (blob > 0) { blocks.unshift(blob & 0xFFn); blob >>= 8n } *)
chacha_extractBytesFromBlob(blob) == extractBytesFromBlob(blob, 0)

(* for (const block of blocks) { hex <<= 8n; hex |= block }, for bytes *)
extractBlobFromBytes(blocks) == Hex(blocks)

(* The final output of encrypt and decrypt of the copy v for the hashed    *)
(* key keyBytes.                                                           *)
chacha20_encrypt(input, keyBytes, chachaNonce, v) ==
    The({ extractBlobFromBytes(outputStream) :
            outputStream \in {xorKeyStream(chacha_extractBytesFromBlob(input),
                                           keyBytes, chachaNonce, v)} })

chacha20_decrypt(input, keyBytes, chachaNonce, v) ==
    The({ extractBlobFromBytes(outputStream) :
            outputStream \in {xorKeyStream(chacha_extractBytesFromBlob(input),
                                           keyBytes, chachaNonce, v)} })

-----------------------------------------------------------------------------
(* ChaCha20 calls                                                          *)

MaxBytes == 3

ChaChaNonces == {<<>>, <<1>>}

(* The messages of a call, as byte strings: short ones of small bytes,     *)
(* ones that start with the first bytes keyBytes of the key stream, so     *)
(* that the ciphertext starts with bytes 0, and one longer than a block.   *)
ChaChaByteStrings(keyBytes) ==
    { s \in UNION { { [i \in 1..n |-> i], [i \in 1..n |-> IF i = 1 THEN keyBytes[1] ELSE i],
                      SubSeq(keyBytes, 1, n) } : n \in 0..MaxBytes }
             \cup { [i \in 1..65 |-> 1] } :
        s = <<>> \/ s[1] # 0 }

ChaChaCallsFor(v, key, rk, hk, n) ==
    { [variant |-> v, key |-> key, resolvedKey |-> rk, hashedKey |-> hk, nonce |-> n,
       input |-> extractBlobFromBytes(s)] :
        s \in ChaChaByteStrings(keyStream(hk, n, firstCounter(v), MaxBytes)) }

(* encrypt hashes the key argument itself. *)
ChaChaCalls ==
    UNION { ChaChaCallsFor(c[1], c[2], c[3], hashKeyBySHA256(c[2]), c[4]) :
              c \in UNION { { <<vk[1], vk[2], rk, n>> :
                                rk \in Resolve(vk[1], vk[2], random128BitKey) } :
                              vk \in VariantKeys, n \in ChaChaNonces } }

(* encrypt(input, key, nonce) *)
ChaChaEncrypt ==
    /\ pc = "idle"
    /\ \E call \in ChaChaCalls :
          /\ cipher' = chacha20_encrypt(call.input, call.hashedKey, call.nonce, call.variant)
          /\ variant' = call.variant
          /\ passphrase' = call.key
          /\ resolvedKey' = call.resolvedKey
          /\ hashedKey' = call.hashedKey
          /\ nonce' = call.nonce
          /\ plain' = call.input
    /\ pc' = "encrypted"
    /\ engine' = "chacha20"
    /\ UNCHANGED <<recovered, page, calls>>

(* decrypt(input, key, nonce) on the ciphertext, the returned passphrase   *)
(* and the same nonce                                                      *)
ChaChaDecrypt ==
    /\ pc = "encrypted"
    /\ engine = "chacha20"
    /\ \E keyBytes \in {hashKeyBySHA256(DecryptKey)} :
          /\ recovered' = chacha20_decrypt(cipher, keyBytes, nonce, variant)
          /\ hashedKey' = keyBytes
    /\ pc' = "decrypted"
    /\ UNCHANGED <<engine, variant, passphrase, nonce, resolvedKey, plain, cipher,
                   page, calls>>

(* The 256-bit keys of the block-level calls. *)
ChaChaKeys == {<<>>, <<1>>} \cup { hashKeyBySHA256(key) : key \in Passphrases }

(* The bytes of a block, word by word, low byte first. *)
RECURSIVE bytesOfBlock(_, _)
bytesOfBlock(block, i) ==
    IF i > Len(block) THEN <<>> ELSE block[i] \o bytesOfBlock(block, i + 1)

(* chaChaBlock(key, nonce, 1n), and the first 64 values that               *)
(* keyStream(key, nonce) yields                                            *)
ChaChaKeyStream ==
    /\ pc = "idle"
    /\ \E v \in Variants, key \in ChaChaKeys, n \in ChaChaNonces :
          /\ cipher' = keyStream(key, n, firstCounter(v), 64)
          /\ plain' = bytesOfBlock(chaChaBlock(key, n, <<1>>), 1)
          /\ variant' = v
          /\ hashedKey' = key
          /\ nonce' = n
    /\ pc' = "keyStream"
    /\ engine' = "chacha20"
    /\ UNCHANGED <<passphrase, resolvedKey, recovered, page, calls>>

(* The engine's arithmetic on the bigint values themselves, with no width  *)
(* given to a word beforehand.                                             *)

(* (a + b) & 0xffffffffn, without the mask *)
bigint_sum_Unmasked(a, b) == Add(a, b)

(* (a + b) & 0xffffffffn *)
bigint_sum(a, b) == BitAnd(Add(a, b), Mask(32))

(* (0xffffffffn & (a << b)) | (a >> (32n - b)) *)
bigint_ROTL(a, b) == BitOr(BitAnd(Mask(32), Shl(a, b)), Shr(a, 32 - b))

(* One line of quarterRound on v = <<state[a], state[b], state[c],         *)
(* state[d]>>, as quarterRoundLines.                                       *)
bigint_quarterRoundLines(v, r1, r2) ==
    The({ The({ The({ <<a, bigint_ROTL(BitXor(v[2], c), r2), c, d>> :
                        c \in {bigint_sum(v[3], d)} }) :
                  d \in {bigint_ROTL(BitXor(v[4], a), r1)} }) :
            a \in {bigint_sum(v[1], v[2])} })

bigint_quarterRound(state, a, b, c, d) ==
    The({ [state EXCEPT ![a + 1] = v[1], ![b + 1] = v[2],
                        ![c + 1] = v[3], ![d + 1] = v[4]] :
            v \in { bigint_quarterRoundLines(half, 8, 7) :
                     half \in {bigint_quarterRoundLines(<<state[a + 1], state[b + 1],
                                                          state[c + 1], state[d + 1]>>,
                                                        16, 12)} } })

(* The states after each of the count quarter rounds from the one numbered *)
(* first on.                                                               *)
RECURSIVE bigint_quarterRounds(_, _, _)
bigint_quarterRounds(state, first, count) ==
    IF count = 1
    THEN << bigint_quarterRound(state, QUARTER_ROUNDS[(first % 8) + 1][1],
                                QUARTER_ROUNDS[(first % 8) + 1][2],
                                QUARTER_ROUNDS[(first % 8) + 1][3],
                                QUARTER_ROUNDS[(first % 8) + 1][4]) >>
    ELSE The({ early \o bigint_quarterRounds(early[Len(early)], first + count \div 2,
                                             count - count \div 2) :
                 early \in {bigint_quarterRounds(state, first, count \div 2)} })

(* words(value, count) with each word as the bigint value & 0xFFFFFFFFn *)
bigint_words(value, count) ==
    The({ SubSeq([i \in 1..Len(w) |-> Norm(w[i])], 1, Len(w)) :
            w \in {words(value, count)} })

(* const state = [0x61707865n, 0x3320646en, 0x79622d32n, 0x6b206574n,      *)
(* ...words(key, 8), count, ...words(nonce, 3)]                            *)
bigint_chaChaState(key, chachaNonce, count) ==
    <<Hex(<<97, 112, 120, 101>>), Hex(<<51, 32, 100, 110>>), Hex(<<121, 98, 45, 50>>),
      Hex(<<107, 32, 101, 116>>)>>
    \o bigint_words(key, 8) \o <<count>> \o bigint_words(chachaNonce, 3)

(* addState(state, stateCopy) *)
bigint_addState(a, b) ==
    SubSeq([i \in 1..Len(a) |-> bigint_sum(a[i], b[i])], 1, Len(a))

(* The keys and nonces of the generators whose blocks are followed word by *)
(* word, and the number of blocks a generator is followed for.             *)
MaxStreamBlocks == 2

ChaChaWordKeys == {<<>>, Mask(256), hashKeyBySHA256(<<"k1">>)}

ChaChaWordNonces == {<<>>, <<1>>, Mask(96)}

(* chaChaBlock(key, nonce, i) of the generator: the state before the       *)
(* rounds, the states after each quarter round, and the block.             *)
blockOfGenerator(key, chachaNonce, count) ==
    The({ The({ [state |-> state, rounds |-> rounds, count |-> count,
                 output |-> bigint_addState(state, rounds[80])] :
                  rounds \in {bigint_quarterRounds(state, 0, 80)} }) :
            state \in {bigint_chaChaState(key, chachaNonce, count)} })

(* keyStream(key, nonce): the first pass of the loop *)
ChaChaFirstBlock ==
    /\ pc = "idle"
    /\ \E v \in Variants, key \in ChaChaWordKeys, n \in ChaChaWordNonces :
          /\ cipher' = blockOfGenerator(key, n, Big(firstCounter(v)))
          /\ variant' = v
          /\ hashedKey' = key
          /\ nonce' = n
    /\ plain' = 1
    /\ pc' = "generating"
    /\ engine' = "chacha20"
    /\ UNCHANGED <<passphrase, resolvedKey, recovered, page, calls>>

(* ++i (i += 1n) and the next pass of the loop *)
ChaChaNextBlock ==
    /\ pc = "generating"
    /\ plain < MaxStreamBlocks
    /\ cipher' = blockOfGenerator(hashedKey, nonce, Add(cipher.count, <<1>>))
    /\ plain' = plain + 1
    /\ UNCHANGED <<pc, engine, variant, passphrase, nonce, resolvedKey, hashedKey,
                   recovered, page, calls>>

NextChaCha ==
    \/ ChaChaEncrypt
    \/ ChaChaDecrypt
    \/ ChaChaKeyStream
    \/ ChaChaFirstBlock
    \/ ChaChaNextBlock

SpecChaCha == Init /\ [][NextChaCha]_vars

(* C3: decrypt(encrypt(x, key, nonce), key, nonce) = x for every           *)
(* passphrase, every nonce and every blob x, also when the ciphertext      *)
(* starts with a byte 0.                                                   *)
C3_BlobRoundTrip ==
    pc = "decrypted" /\ engine = "chacha20" => recovered = plain

(* The key stream block of RFC 8439 for key 0, nonce 0 and counter 1. *)
RFC8439_BLOCK ==
    <<159, 7, 231, 190, 85, 81, 56, 122, 152, 186, 151, 124, 115, 45, 8, 13,
      203, 15, 41, 160, 72, 227, 101, 105, 18, 198, 83, 62, 50, 238, 122, 237,
      41, 183, 33, 118, 156, 230, 78, 67, 213, 113, 51, 176, 116, 216, 57, 213,
      49, 237, 31, 40, 81, 10, 251, 69, 172, 225, 10, 31, 75, 121, 77, 111>>

(* C7: for key 0 and nonce 0 the block of counter 1, word by word and low  *)
(* byte first, is the block of RFC 8439, and it is the first 64 bytes the  *)
(* key stream generator yields.                                            *)
C7_KnownAnswer ==
    pc = "keyStream" /\ hashedKey = <<>> /\ nonce = <<>> =>
        /\ plain = RFC8439_BLOCK
        /\ cipher = RFC8439_BLOCK

(* The part of C7 that the code keeps: the block itself, and the first 64  *)
(* bytes of the generator that starts at counter 1.                        *)
C7_BlockKnownAnswer ==
    pc = "keyStream" /\ hashedKey = <<>> /\ nonce = <<>> =>
        /\ plain = RFC8439_BLOCK
        /\ variant = "traced" => cipher = RFC8439_BLOCK


(* The first block of the generator of the state: the block of the first  *)
(* counter value of the variant.                                           *)
firstBlock == chaChaBlock(hashedKey, nonce, Big(firstCounter(variant)))

(* C23: the p-th byte the key stream generator yields is byte p mod 64 of  *)
(* the block of counter c0 + p div 64, each word being serialized low byte *)
(* first as exactly 4 bytes, also when high-order bytes of a word are 0;   *)
(* here for p in 0..63.                                                    *)
C23_KeystreamPositions ==
    pc = "keyStream" => cipher = bytesOfBlock(firstBlock, 1)

(* The same for the blocks none of whose words has a high-order byte 0.    *)
C23_PositionsOfFullWords ==
    pc = "keyStream" /\ (\A i \in 1..16 : firstBlock[i][4] # 0)
    => cipher = bytesOfBlock(firstBlock, 1)

C23_FullWordsWitness ==
    /\ pc = "keyStream"
    /\ \A i \in 1..16 : firstBlock[i][4] # 0
    /\ cipher = bytesOfBlock(firstBlock, 1)
    /\ hashedKey # <<>>

(* The block of counter 1 has no word with a high-order byte 0; plain      *)
(* holds its 64 bytes in the states of the key stream.                     *)
fullWords(bytes) == Len(bytes) = 64 /\ \A i \in 1..16 : bytes[4 * i] # 0

(* C24: in both variants the generator computes its first block with       *)
(* block counter 1, so the first bytes it yields are the bytes of that     *)
(* block, and encrypt returns the same blob in the traced and in the plain *)
(* variant for the same input, hashed key and nonce.                       *)
C24_CounterSequence ==
    /\ pc = "keyStream" /\ fullWords(plain) => cipher = plain
    /\ pc = "encrypted" /\ engine = "chacha20"
       => chacha20_encrypt(plain, hashedKey, nonce, "traced")
          = chacha20_encrypt(plain, hashedKey, nonce, "plain")

(* The traced variant does start at counter 1. *)
C24_TracedCounter ==
    pc = "keyStream" /\ fullWords(plain) /\ variant = "traced" => cipher = plain

C24_TracedWitness ==
    pc = "keyStream" /\ fullWords(plain) /\ variant = "traced" /\ cipher = plain
        /\ nonce = <<1>>

(* A bigint below 2^32: at most four digits. *)
Below32(x) == Len(x) <= 4

(* The narrow form of a sequence of words agrees with the four-byte form   *)
(* the engine model computes with.                                         *)
asWords(state) == SubSeq([i \in 1..Len(state) |-> Word(state[i])], 1, Len(state))

-----------------------------------------------------------------------------
(* DES: src/unnamed/part_000, lines 247-675.  Blocks, halves and keys are  *)
(* bigints; a text is the sequence of its character codes.                 *)

(* BUILTIN: the tables of the standard, numbered from 1. *)
IP ==
    <<58, 50, 42, 34, 26, 18, 10, 2, 60, 52, 44, 36, 28, 20, 12, 4, 62, 54,
      46, 38, 30, 22, 14, 6, 64, 56, 48, 40, 32, 24, 16, 8, 57, 49, 41, 33,
      25, 17, 9, 1, 59, 51, 43, 35, 27, 19, 11, 3, 61, 53, 45, 37, 29, 21,
      13, 5, 63, 55, 47, 39, 31, 23, 15, 7>>

IPInverse ==
    <<40, 8, 48, 16, 56, 24, 64, 32, 39, 7, 47, 15, 55, 23, 63, 31, 38, 6,
      46, 14, 54, 22, 62, 30, 37, 5, 45, 13, 53, 21, 61, 29, 36, 4, 44, 12,
      52, 20, 60, 28, 35, 3, 43, 11, 51, 19, 59, 27, 34, 2, 42, 10, 50, 18,
      58, 26, 33, 1, 41, 9, 49, 17, 57, 25>>

P ==
    <<16, 7, 20, 21, 29, 12, 28, 17, 1, 15, 23, 26, 5, 18, 31, 10, 2, 8, 24,
      14, 32, 27, 3, 9, 19, 13, 30, 6, 22, 11, 4, 25>>

ESelection ==
    <<32, 1, 2, 3, 4, 5, 4, 5, 6, 7, 8, 9, 8, 9, 10, 11, 12, 13, 12, 13, 14,
      15, 16, 17, 16, 17, 18, 19, 20, 21, 20, 21, 22, 23, 24, 25, 24, 25,
      26, 27, 28, 29, 28, 29, 30, 31, 32, 1>>

sTables ==
    << << <<14, 4, 13, 1, 2, 15, 11, 8, 3, 10, 6, 12, 5, 9, 0, 7>>,
          <<0, 15, 7, 4, 14, 2, 13, 1, 10, 6, 12, 11, 9, 5, 3, 8>>,
          <<4, 1, 14, 8, 13, 6, 2, 11, 15, 12, 9, 7, 3, 10, 5, 0>>,
          <<15, 12, 8, 2, 4, 9, 1, 7, 5, 11, 3, 14, 10, 0, 6, 13>> >>,
       << <<15, 1, 8, 14, 6, 11, 3, 4, 9, 7, 2, 13, 12, 0, 5, 10>>,
          <<3, 13, 4, 7, 15, 2, 8, 14, 12, 0, 1, 10, 6, 9, 11, 5>>,
          <<0, 14, 7, 11, 10, 4, 13, 1, 5, 8, 12, 6, 9, 3, 2, 15>>,
          <<13, 8, 10, 1, 3, 15, 4, 2, 11, 6, 7, 12, 0, 5, 14, 9>> >>,
       << <<10, 0, 9, 14, 6, 3, 15, 5, 1, 13, 12, 7, 11, 4, 2, 8>>,
          <<13, 7, 0, 9, 3, 4, 6, 10, 2, 8, 5, 14, 12, 11, 15, 1>>,
          <<13, 6, 4, 9, 8, 15, 3, 0, 11, 1, 2, 12, 5, 10, 14, 7>>,
          <<1, 10, 13, 0, 6, 9, 8, 7, 4, 15, 14, 3, 11, 5, 2, 12>> >>,
       << <<7, 13, 14, 3, 0, 6, 9, 10, 1, 2, 8, 5, 11, 12, 4, 15>>,
          <<13, 8, 11, 5, 6, 15, 0, 3, 4, 7, 2, 12, 1, 10, 14, 9>>,
          <<10, 6, 9, 0, 12, 11, 7, 13, 15, 1, 3, 14, 5, 2, 8, 4>>,
          <<3, 15, 0, 6, 10, 1, 13, 8, 9, 4, 5, 11, 12, 7, 2, 14>> >>,
       << <<2, 12, 4, 1, 7, 10, 11, 6, 8, 5, 3, 15, 13, 0, 14, 9>>,
          <<14, 11, 2, 12, 4, 7, 13, 1, 5, 0, 15, 10, 3, 9, 8, 6>>,
          <<4, 2, 1, 11, 10, 13, 7, 8, 15, 9, 12, 5, 6, 3, 0, 14>>,
          <<11, 8, 12, 7, 1, 14, 2, 13, 6, 15, 0, 9, 10, 4, 5, 3>> >>,
       << <<12, 1, 10, 15, 9, 2, 6, 8, 0, 13, 3, 4, 14, 7, 5, 11>>,
          <<10, 15, 4, 2, 7, 12, 9, 5, 6, 1, 13, 14, 0, 11, 3, 8>>,
          <<9, 14, 15, 5, 2, 8, 12, 3, 7, 0, 4, 10, 1, 13, 11, 6>>,
          <<4, 3, 2, 12, 9, 5, 15, 10, 11, 14, 1, 7, 6, 0, 8, 13>> >>,
       << <<4, 11, 2, 14, 15, 0, 8, 13, 3, 12, 9, 7, 5, 10, 6, 1>>,
          <<13, 0, 11, 7, 4, 9, 1, 10, 14, 3, 5, 12, 2, 15, 8, 6>>,
          <<1, 4, 11, 13, 12, 3, 7, 14, 10, 15, 6, 8, 0, 5, 9, 2>>,
          <<6, 11, 13, 8, 1, 4, 10, 7, 9, 5, 0, 15, 14, 2, 3, 12>> >>,
       << <<13, 2, 8, 4, 6, 15, 11, 1, 10, 9, 3, 14, 5, 0, 12, 7>>,
          <<1, 15, 13, 8, 10, 3, 7, 4, 12, 5, 6, 11, 0, 14, 9, 2>>,
          <<7, 11, 4, 1, 9, 12, 14, 2, 0, 6, 10, 13, 15, 3, 5, 8>>,
          <<2, 1, 14, 7, 4, 10, 8, 13, 15, 12, 9, 0, 3, 5, 6, 11>> >> >>

pc1 ==
    <<57, 49, 41, 33, 25, 17, 9, 1, 58, 50, 42, 34, 26, 18, 10, 2, 59, 51,
      43, 35, 27, 19, 11, 3, 60, 52, 44, 36, 63, 55, 47, 39, 31, 23, 15, 7,
      62, 54, 46, 38, 30, 22, 14, 6, 61, 53, 45, 37, 29, 21, 13, 5, 28, 20,
      12, 4>>

pc2 ==
    <<14, 17, 11, 24, 1, 5, 3, 28, 15, 6, 21, 10, 23, 19, 12, 4, 26, 8, 16,
      7, 27, 20, 13, 2, 41, 52, 31, 37, 47, 55, 30, 40, 51, 45, 33, 48, 44,
      49, 39, 56, 34, 53, 46, 42, 50, 36, 29, 32>>

shiftAmounts ==
    <<0, 1, 1, 2, 2, 2, 2, 2, 2, 1, 2, 2, 2, 2, 2, 2, 1>>

(* (block >> position) & 1n *)
Bit(block, position) ==
    (Digit(block, (position \div 8) + 1) \div (2 ^ (position % 8))) % 2

(* The bit permute leaves at position p, counted from the least            *)
(* significant end of its result: the loop shifts the result left once per *)
(* table entry, so the entry i (from 0) lands at position length - 1 - i,  *)
(* and it is bit table[i] - 1 of the block, counted from the least         *)
(* significant end.                                                        *)
permutedBit(block, table, p) ==
    IF p < Len(table) THEN Bit(block, table[Len(table) - p] - 1) ELSE 0

(* permuted <<= 1n; permuted |= (block >> BigInt(table[i] - 1)) & 1n *)
permute(block, table) ==
    Norm(SubSeq([j \in 1..((Len(table) + 7) \div 8) |->
                    permutedBit(block, table, 8 * j - 8)
                    + 2 * permutedBit(block, table, 8 * j - 7)
                    + 4 * permutedBit(block, table, 8 * j - 6)
                    + 8 * permutedBit(block, table, 8 * j - 5)
                    + 16 * permutedBit(block, table, 8 * j - 4)
                    + 32 * permutedBit(block, table, 8 * j - 3)
                    + 64 * permutedBit(block, table, 8 * j - 2)
                    + 128 * permutedBit(block, table, 8 * j - 1)],
                1, (Len(table) + 7) \div 8))

(* [permuted >> 32n, permuted & 0xFFFFFFFFn] *)
permuteSplit(block, table) ==
    The({ <<Shr(permuted, 32), BitAnd(permuted, Mask(32))>> :
            permuted \in {permute(block, table)} })

(* permute((l << 32n) | r, table) *)
permuteJoin(l, r, table) ==
    The({ permute(combined, table) : combined \in {BitOr(Shl(l, 32), r)} })

(* The same loop as permute, over ESelection. *)
selectE(block) == permute(block, ESelection)

(* The row is the first and last of the six bits, the column the four in   *)
(* between.                                                                *)
selectS(block, tableIndex) ==
    sTables[tableIndex + 1][2 * ((block \div 32) % 2) + (block % 2) + 1]
           [((block \div 2) % 16) + 1]

(* extractBitsIntoBlocks(block, blockSize): while (block > 0) *)
des_extractBitsIntoBlocks(block, blockSize) == extractBlocksLoop(block, blockSize, <<>>)

(* sixBitBlocks.map((b, i) => selectS(b, i)): the table is the position of *)
(* the piece among the pieces the loop found.                              *)
sSelected(sixBitBlocks) ==
    SubSeq([i \in 1..Len(sixBitBlocks) |-> selectS(Num(sixBitBlocks[i]), i - 1)],
           1, Len(sixBitBlocks))

(* sSelected.reduce((accumulated, b) => (accumulated << 4n) | b, 0n) *)
RECURSIVE concatenated(_, _, _)
concatenated(selected, i, accumulated) ==
    IF i > Len(selected) THEN accumulated
    ELSE The({ concatenated(selected, i + 1, next) :
                 next \in {BitOr(Shl(accumulated, 4), Big(selected[i]))} })

des_cipher(block, key) ==
    The({ permute(c, P) :
            c \in { concatenated(s, 1, <<>>) :
                     s \in { sSelected(des_extractBitsIntoBlocks(xored, 6)) :
                              xored \in {BitXor(selectE(block), key)} } } })

(* for (let i = 1; i <= 16; ++i): the pairs [cI, dI] that follow cd *)
RECURSIVE separatedKeySchedule(_, _)
separatedKeySchedule(cd, i) ==
    IF i > 16 THEN <<>>
    ELSE The({ <<next>> \o separatedKeySchedule(next, i + 1) :
                 next \in {<<cyclicLeftShift(cd[1], 28, shiftAmounts[i + 1]),
                             cyclicLeftShift(cd[2], 28, shiftAmounts[i + 1])>>} })

des_createKeySchedule(key) ==
    The({ SubSeq([i \in 1..Len(pairs) |-> permuteJoin(pairs[i][1], pairs[i][2], pc2)],
                 1, Len(pairs)) :
            pairs \in {separatedKeySchedule(permuteSplit(key, pc1), 1)} })

(* [l, r] = [r, l ^ cipher(r, keySchedule[i])] *)
des_encryptRound(lr, key) == <<lr[2], BitXor(lr[1], des_cipher(lr[2], key))>>

(* [l, r] = [r ^ cipher(l, keySchedule[i]), l] *)
des_decryptRound(lr, key) == <<BitXor(lr[2], des_cipher(lr[1], key)), lr[1]>>

(* for (let i = 0; i < 16; ++i): the count rounds from the one numbered    *)
(* first on; the earlier half is worked out before the later one.          *)
RECURSIVE des_encryptRounds(_, _, _, _)
des_encryptRounds(lr, first, count, keySchedule) ==
    IF count = 1 THEN des_encryptRound(lr, keySchedule[first + 1])
    ELSE The({ des_encryptRounds(half, first + count \div 2, count - count \div 2,
                                 keySchedule) :
                 half \in {des_encryptRounds(lr, first, count \div 2, keySchedule)} })

(* The decrypting rounds with the round keys taken in the order 0..15. *)
RECURSIVE des_decryptRounds_KeysAscending(_, _, _, _)
des_decryptRounds_KeysAscending(lr, first, count, keySchedule) ==
    IF count = 1 THEN des_decryptRound(lr, keySchedule[16 - first])
    ELSE The({ des_decryptRounds_KeysAscending(half, first - count \div 2,
                                                count - count \div 2, keySchedule) :
                 half \in {des_decryptRounds_KeysAscending(lr, first, count \div 2,
                                                           keySchedule)} })

(* for (let i = 15; i >= 0; --i) *)
RECURSIVE des_decryptRounds(_, _, _, _)
des_decryptRounds(lr, first, count, keySchedule) ==
    IF count = 1 THEN des_decryptRound(lr, keySchedule[first + 1])
    ELSE The({ des_decryptRounds(half, first - count \div 2, count - count \div 2,
                                 keySchedule) :
                 half \in {des_decryptRounds(lr, first, count \div 2, keySchedule)} })

des_encryptBlock(block, keySchedule) ==
    The({ permuteJoin(lr[1], lr[2], IPInverse) :
            lr \in {des_encryptRounds(permuteSplit(block, IP), 0, 16, keySchedule)} })

des_decryptBlock(block, keySchedule) ==
    The({ permuteJoin(lr[1], lr[2], IPInverse) :
            lr \in {des_decryptRounds(permuteSplit(block, IP), 15, 16, keySchedule)} })

(* bits <<= 8n; bits += BigInt(text.charCodeAt(i)) *)
RECURSIVE textBits(_, _, _)
textBits(text, i, bits) ==
    IF i > Len(text) THEN bits
    ELSE The({ textBits(text, i + 1, next) :
                 next \in {Add(Shl(bits, 8), Big(text[i]))} })

splitInto64BitBlocks(text) ==
    The({ des_extractBitsIntoBlocks(bits, 64) : bits \in {textBits(text, 1, <<>>)} })

(* while (bits > 0) { extracted = String.fromCharCode(Number(bits &        *)
(* 0xffn)) + extracted; bits >>= 8n }, block after block                   *)
RECURSIVE extractStringFrom64BitBlocks(_)
extractStringFrom64BitBlocks(blocks) ==
    IF blocks = <<>> THEN <<>>
    ELSE Reverse(Norm(blocks[1])) \o extractStringFrom64BitBlocks(Tail(blocks))

des_mapBlocks(blocks, keySchedule, decrypting) ==
    SubSeq([i \in 1..Len(blocks) |->
               IF decrypting THEN des_decryptBlock(blocks[i], keySchedule)
               ELSE des_encryptBlock(blocks[i], keySchedule)],
           1, Len(blocks))

(* The final output of encrypt for the hashed key workingKey. *)
des_encrypt(text, workingKey) ==
    The({ extractStringFrom64BitBlocks(encryptedBlocks) :
            encryptedBlocks \in
                { des_mapBlocks(splitInto64BitBlocks(text), keySchedule, FALSE) :
                    keySchedule \in {des_createKeySchedule(workingKey)} } })

(* The final output of decrypt for the hashed key workingKey. *)
des_decrypt(text, workingKey) ==
    The({ extractStringFrom64BitBlocks(decryptedBlocks) :
            decryptedBlocks \in
                { des_mapBlocks(splitInto64BitBlocks(text), keySchedule, TRUE) :
                    keySchedule \in {des_createKeySchedule(workingKey)} } })

(* Math.floor(Math.random() * 2 ** 61), as the string encrypt makes of it: *)
(* any of the strings it can give.                                         *)
random64BitKey == {"1000000000000000000"}

-----------------------------------------------------------------------------
(* DES calls                                                               *)

(* key == null ? random64BitKey().toString() : key *)
DesResolve(key) == IF key = Undefined THEN random64BitKey ELSE {key[1]}

(* A text of Len(seq) blocks, each picked from blocks. *)
DesText(seq, blocks) ==
    The({ extractStringFrom64BitBlocks(chosen) :
            chosen \in {SubSeq([i \in 1..Len(seq) |-> blocks[seq[i]]], 1, Len(seq))} })

(* The blocks texts are made of: "A", "ABCDEFGH", the block of eight       *)
(* characters 255 and the block whose ciphertext is 0.                     *)
DesTextBlocks(workingKey) ==
    The({ <<<<65>>, Hex(<<65, 66, 67, 68, 69, 70, 71, 72>>), Mask(64),
            des_decryptBlock(<<>>, keySchedule)>> :
            keySchedule \in {des_createKeySchedule(workingKey)} })

(* The texts of the calls; two of them hold a character 0. *)
DesTexts(workingKey) ==
    { DesText(seq, blocks) :
        seq \in UNION { [1..n -> 1..4] : n \in 0..MaxBlocks },
        blocks \in {DesTextBlocks(workingKey)} }
    \cup {<<0, 65>>, <<65, 0, 66, 67, 68, 69, 70, 71, 72>>}

DesCallsFor(key, rk, hk) ==
    { [key |-> key, resolvedKey |-> rk, hashedKey |-> hk, text |-> text] :
        text \in DesTexts(hk) }

DesCalls ==
    UNION { DesCallsFor(c[1], c[2], hashKeyBySHA256(<<c[2]>>)) :
              c \in UNION { { <<key, rk>> : rk \in DesResolve(key) } :
                              key \in Passphrases \cup {Undefined} } }

(* encrypt(text, key) *)
DesEncrypt ==
    /\ pc = "idle"
    /\ \E call \in DesCalls :
          /\ cipher' = des_encrypt(call.text, call.hashedKey)
          /\ passphrase' = call.key
          /\ resolvedKey' = call.resolvedKey
          /\ hashedKey' = call.hashedKey
          /\ plain' = call.text
    /\ pc' = "encrypted"
    /\ engine' = "des"
    /\ variant' = "traced"
    /\ UNCHANGED <<nonce, recovered, page, calls>>

(* decrypt(text, key) on the encrypted text and the returned key *)
DesDecrypt ==
    /\ pc = "encrypted"
    /\ engine = "des"
    /\ \E rk \in DesResolve(DecryptKey) :
       \E workingKey \in {hashKeyBySHA256(<<rk>>)} :
          /\ recovered' = des_decrypt(cipher, workingKey)
          /\ hashedKey' = workingKey
    /\ pc' = "decrypted"
    /\ UNCHANGED <<engine, variant, passphrase, nonce, resolvedKey, plain, cipher,
                   page, calls>>

(* The key and the block of the known answer, and the published answer. *)
DES_KAT_KEY == Hex(<<19, 52, 87, 121, 155, 188, 223, 241>>)

DES_KAT_BLOCK == Hex(<<1, 35, 69, 103, 137, 171, 205, 239>>)

DES_KAT_ANSWER == Hex(<<133, 232, 19, 84, 15, 10, 180, 5>>)

(* The keys and the blocks of the block-level calls. *)
DesKeys ==
    {<<>>, <<1>>, Mask(64), DES_KAT_KEY} \cup { hashKeyBySHA256(key) : key \in Passphrases }

DesBlocks ==
    {<<>>, <<1>>, Mask(64), Shl(<<1>>, 63), Shl(<<1>>, 32), Mask(32), DES_KAT_BLOCK,
     DES_KAT_ANSWER}

(* encryptBlock(block, createKeySchedule(key)) *)
DesEncryptBlock ==
    /\ pc = "idle"
    /\ \E key \in DesKeys, block \in DesBlocks :
          /\ cipher' = The({ des_encryptBlock(block, keySchedule) :
                               keySchedule \in {des_createKeySchedule(key)} })
          /\ hashedKey' = key
          /\ plain' = block
    /\ pc' = "blockEncrypted"
    /\ engine' = "des"
    /\ variant' = "traced"
    /\ UNCHANGED <<passphrase, nonce, resolvedKey, recovered, page, calls>>

(* decryptBlock(block, createKeySchedule(key)) on the encrypted block *)
DesDecryptBlock ==
    /\ pc = "blockEncrypted"
    /\ engine = "des"
    /\ recovered' = The({ des_decryptBlock(cipher, keySchedule) :
                            keySchedule \in {des_createKeySchedule(hashedKey)} })
    /\ pc' = "blockDecrypted"
    /\ UNCHANGED <<engine, variant, passphrase, nonce, resolvedKey, hashedKey, plain, cipher,
                   page, calls>>

(* The 32-bit halves and the 48-bit round keys of the calls of cipher. *)
DesHalves ==
    {<<>>, <<1>>, Mask(32), Shl(<<1>>, 31), Hex(<<18, 52, 86, 120>>)}

DesRoundKeys ==
    {<<>>, <<1>>, Mask(48), Shl(<<1>>, 47), Shl(<<1>>, 42), Shl(<<1>>, 41),
     Hex(<<27, 2, 239, 252, 112, 114>>)}

(* cipher(block, key) *)
DesCipher ==
    /\ pc = "idle"
    /\ \E block \in DesHalves, key \in DesRoundKeys :
          /\ cipher' = des_cipher(block, key)
          /\ hashedKey' = key
          /\ plain' = block
    /\ pc' = "ciphered"
    /\ engine' = "des"
    /\ variant' = "traced"
    /\ UNCHANGED <<passphrase, nonce, resolvedKey, recovered, page, calls>>

(* Sequences of 16 round keys: the same key 16 times, 16 different keys,   *)
(* and the schedule of the key of the known answer.                        *)
DesSchedules ==
    { SubSeq([i \in 1..16 |-> key], 1, 16) : key \in {<<>>, Mask(48)} }
    \cup { SubSeq([i \in 1..16 |-> Shl(<<i>>, 2 * i)], 1, 16),
           SubSeq([i \in 1..16 |-> Shl(<<15 * i>>, 40)], 1, 16),
           des_createKeySchedule(DES_KAT_KEY) }

(* encryptBlock(block, keySchedule) *)
DesEncryptBlockUnder ==
    /\ pc = "idle"
    /\ \E keySchedule \in DesSchedules, block \in DesBlocks :
          /\ cipher' = des_encryptBlock(block, keySchedule)
          /\ resolvedKey' = keySchedule
          /\ plain' = block
    /\ pc' = "keysEncrypted"
    /\ engine' = "des"
    /\ variant' = "traced"
    /\ UNCHANGED <<passphrase, nonce, hashedKey, recovered, page, calls>>

(* decryptBlock(block, keySchedule) on the encrypted block *)
DesDecryptBlockUnder ==
    /\ pc = "keysEncrypted"
    /\ engine = "des"
    /\ recovered' = des_decryptBlock(cipher, resolvedKey)
    /\ pc' = "keysDecrypted"
    /\ UNCHANGED <<engine, variant, passphrase, nonce, resolvedKey, hashedKey, plain, cipher,
                   page, calls>>

NextDes ==
    \/ DesEncrypt
    \/ DesDecrypt
    \/ DesEncryptBlock
    \/ DesDecryptBlock
    \/ DesCipher
    \/ DesEncryptBlockUnder
    \/ DesDecryptBlockUnder

SpecDes == Init /\ [][NextDes]_vars

(* C4: decrypt(encrypt(text, key).finalOutput, key).finalOutput = text for *)
(* every key and every text of characters 0..255.                          *)
C4_TextRoundTrip ==
    pc = "decrypted" /\ engine = "des" => recovered = plain

(* C6: encryptBlock of 0x0123456789ABCDEF under the schedule of the raw    *)
(* key 0x133457799BBCDFF1 is 0x85E813540F0AB405.                           *)
C6_KnownAnswer ==
    pc = "blockEncrypted" /\ engine = "des" /\ hashedKey = DES_KAT_KEY
        /\ plain = DES_KAT_BLOCK
    => cipher = DES_KAT_ANSWER

(* decryptBlock(encryptBlock(b, ks), ks) = b at the block level. *)
DesBlockRoundTrip ==
    pc = "blockDecrypted" /\ engine = "des" => recovered = plain


(* The i-th 6-bit group of a 48-bit value, counted from the most           *)
(* significant end, i in 1..8.                                             *)
sixBitGroup(xored, i) == Num(BitAnd(Shr(xored, 6 * (8 - i)), Mask(6)))

(* The eight 4-bit results of S-box i on group i. *)
eightSelected(xored) ==
    SubSeq([i \in 1..8 |-> selectS(sixBitGroup(xored, i), i - 1)], 1, 8)

(* P over the 32 bits the eight results make. *)
groupedCipher(block, key) ==
    The({ permute(c, P) :
            c \in { concatenated(s, 1, <<>>) :
                     s \in { eightSelected(xored) :
                              xored \in {BitXor(selectE(block), key)} } } })

(* C21: cipher(R, K) substitutes the i-th of exactly eight 6-bit groups of *)
(* E(R) xor K through S-box i and permutes the 32 bits with P, also when   *)
(* the leading groups are zero.                                            *)
C21_RoundFunctionGrouping ==
    pc = "ciphered" => cipher = groupedCipher(plain, hashedKey)

(* The same where the first group of E(R) xor K is not zero: the loop then *)
(* finds all eight groups.                                                 *)
C21_GroupingOfFullWidth ==
    pc = "ciphered" /\ sixBitGroup(BitXor(selectE(plain), hashedKey), 1) # 0
    => cipher = groupedCipher(plain, hashedKey)

C21_FullWidthWitness ==
    pc = "ciphered" /\ sixBitGroup(BitXor(selectE(plain), hashedKey), 1) # 0
        /\ cipher = groupedCipher(plain, hashedKey)

(* C22: decryptBlock(encryptBlock(b, keys), keys) = b for every sequence   *)
(* of 16 round keys and every 64-bit block b; permuting with IPInverse     *)
(* undoes permuting with IP, and IP undoes IPInverse, under the numbering  *)
(* of permute.                                                             *)
C22_BlockRoundTrip ==
    /\ pc \in {"keysDecrypted", "blockDecrypted"} /\ engine = "des" => recovered = plain
    /\ pc \in {"keysEncrypted", "blockEncrypted"} /\ engine = "des"
       => /\ permute(permute(plain, IP), IPInverse) = plain
          /\ permute(permute(cipher, IP), IPInverse) = cipher
          /\ permute(permute(plain, IPInverse), IP) = plain

(* A block of 64 bits went through 16 different round keys and came back,  *)
(* and its encryption differs from it.                                     *)
C22_Witness ==
    /\ pc = "keysDecrypted"
    /\ engine = "des"
    /\ plain = DES_KAT_BLOCK
    /\ resolvedKey[1] # resolvedKey[2]
    /\ cipher # plain
    /\ recovered = plain
-----------------------------------------------------------------------------
(* Splitting a blob into blocks and joining the blocks again, as each      *)
(* engine does it: 128-bit blocks in TwoFish, 64-bit blocks in IDEA, bytes *)
(* in ChaCha20.                                                            *)

MaxSplitBytes == 17

BlockWidth(e) == IF e = "twofish" THEN 128 ELSE IF e = "idea" THEN 64 ELSE 8

(* The blobs that are split: 0 and, for each length in bytes, the blob of  *)
(* all ones, the blobs with only the top bit or only the lowest bit of the *)
(* top byte set, and the latter with the lowest bit of the blob set too.   *)
SplitBlobs ==
    {<<>>} \cup UNION { { [i \in 1..n |-> 255],
                          [i \in 1..n |-> IF i = n THEN 128 ELSE 0],
                          [i \in 1..n |-> IF i = n THEN 1 ELSE 0],
                          [i \in 1..n |-> IF i = n \/ i = 1 THEN 1 ELSE 0] } :
                        n \in 1..MaxSplitBytes }

splitOf(e, blob) ==
    IF e = "twofish" THEN extract128BitBytesFromBLOB(blob)
    ELSE IF e = "idea" THEN extract64BitBlocksFromBLOB(blob)
    ELSE chacha_extractBytesFromBlob(blob)

joinOf(e, blocks) ==
    IF e = "twofish" THEN extractBLOBFrom128BitBytes(blocks)
    ELSE IF e = "idea" THEN extractBLOBFrom64BitBlocks(blocks)
    ELSE extractBlobFromBytes(blocks)

(* The blob is split into the blocks of an engine. *)
Split ==
    /\ pc = "idle"
    /\ \E e \in {"twofish", "idea", "chacha20"}, blob \in SplitBlobs :
          /\ cipher' = splitOf(e, blob)
          /\ plain' = blob
          /\ engine' = e
    /\ pc' = "split"
    /\ UNCHANGED <<variant, passphrase, nonce, resolvedKey, hashedKey, recovered,
                   page, calls>>

(* The blocks are joined. *)
Join ==
    /\ pc = "split"
    /\ recovered' = joinOf(engine, cipher)
    /\ pc' = "joined"
    /\ UNCHANGED <<engine, variant, passphrase, nonce, resolvedKey, hashedKey, plain, cipher,
                   page, calls>>

NextSplit ==
    \/ Split
    \/ Join

SpecSplit == Init /\ [][NextSplit]_vars

(* The number of bits of a blob: 0 for the blob 0. *)
BitLength(blob) ==
    IF blob = <<>> THEN 0
    ELSE 8 * (Len(blob) - 1)
         + (CHOOSE b \in 1..8 : 2 ^ (b - 1) <= blob[Len(blob)] /\ blob[Len(blob)] < 2 ^ b)

(* A block is a value below 2^n: a byte for ChaCha20, a bigint of at most  *)
(* n / 8 digits for the others.                                            *)
BlockBelow(e, block) ==
    IF e = "chacha20" THEN block \in 0..255
    ELSE /\ Len(block) <= BlockWidth(e) \div 8
         /\ \A i \in 1..Len(block) : block[i] \in 0..255
         /\ block = Norm(block)

(* C5: for the widths 8, 64 and 128, joining the blocks of a blob gives    *)
(* the blob back, every block is below 2^n, and there are                  *)
(* ceil(bitlength / n) blocks, none for the blob 0.                        *)
C5_SplitJoin ==
    /\ pc \in {"split", "joined"} =>
          /\ \A i \in 1..Len(cipher) : BlockBelow(engine, cipher[i])
          /\ Len(cipher) = (BitLength(plain) + BlockWidth(engine) - 1) \div BlockWidth(engine)
    /\ pc = "joined" => recovered = plain

(* A blob of two blocks and more than one byte has been split and joined   *)
(* in each width; the blob 0 has given no block.                           *)
C5_Witness ==
    /\ pc = "joined"
    /\ engine = "twofish"
    /\ Len(cipher) = 2
    /\ cipher[2] = <<1>>
    /\ recovered = plain

-----------------------------------------------------------------------------
(* The passphrase an encrypt call gives back                               *)

(* The keys random128BitKey() of the engine can give. *)
GeneratedKeys(e) == IF e = "idea" THEN idea_random128BitKey ELSE random128BitKey

(* The working key the engine makes of a passphrase: the SHA-256 digest,   *)
(* cut to 128 bits by TwoFish and IDEA.                                    *)
WorkingKey(e, key) ==
    IF e = "chacha20" THEN hashKeyBySHA256(<<key>>)
    ELSE BitAnd(hashKeyBySHA256(<<key>>), BIT_128)

(* C10: after encrypt of TwoFish, IDEA or ChaCha20, the passphrase given   *)
(* back is a generated one when none or the empty one was given and the    *)
(* given one otherwise, and the working key of the call is the hash of the *)
(* passphrase given back.                                                  *)
C10_ResolvedKeyUsed ==
    pc = "encrypted" /\ variant = "traced" /\ engine \in {"twofish", "idea", "chacha20"}
    => /\ passphrase \in {Undefined, <<"">>} => resolvedKey \in GeneratedKeys(engine)
       /\ passphrase \notin {Undefined, <<"">>} => resolvedKey = passphrase[1]
       /\ hashedKey = WorkingKey(engine, resolvedKey)

(* The part of C10 that the code keeps: TwoFish and IDEA hash the          *)
(* passphrase they give back.                                              *)
C10_TwoFishIdeaResolved ==
    pc = "encrypted" /\ variant = "traced" /\ engine \in {"twofish", "idea"}
    => /\ passphrase \in {Undefined, <<"">>} => resolvedKey \in GeneratedKeys(engine)
       /\ passphrase \notin {Undefined, <<"">>} => resolvedKey = passphrase[1]
       /\ hashedKey = WorkingKey(engine, resolvedKey)

-----------------------------------------------------------------------------
(* The blob calls of the three engines of the page                         *)

NextBlobs ==
    \/ TwoFishEncrypt
    \/ TwoFishDecrypt
    \/ IdeaEncrypt
    \/ IdeaDecrypt
    \/ ChaChaEncrypt
    \/ ChaChaDecrypt

SpecBlobs == Init /\ [][NextBlobs]_vars

(* The blocks or bytes an engine finds in a blob. *)
piecesOf(e, blob) ==
    CASE e = "twofish" -> extract128BitBytesFromBLOB(blob)
      [] e = "idea" -> extract64BitBlocksFromBLOB(blob)
      [] e = "chacha20" -> chacha_extractBytesFromBlob(blob)

(* C29: for every key and nonce, encrypt and decrypt of the blob 0 in      *)
(* TwoFish, IDEA and ChaCha20 find no block or byte in it and return the   *)
(* blob 0, whatever the key.                                               *)
C29_ZeroBlobFixedPoint ==
    /\ pc = "encrypted" /\ engine \in {"twofish", "idea", "chacha20"} /\ plain = <<>>
       => piecesOf(engine, plain) = <<>> /\ cipher = <<>>
    /\ pc = "decrypted" /\ engine \in {"twofish", "idea", "chacha20"} /\ cipher = <<>>
       => piecesOf(engine, cipher) = <<>> /\ recovered = <<>>

(* The blob 0 was encrypted and decrypted by IDEA under a generated key. *)
C29_Witness ==
    /\ pc = "decrypted"
    /\ engine = "idea"
    /\ passphrase = Undefined
    /\ plain = <<>>
    /\ cipher = <<>>
    /\ recovered = <<>>

(* The same by TwoFish and by ChaCha20 with the nonce 1. *)
C29_TwoFishWitness ==
    pc = "decrypted" /\ engine = "twofish" /\ plain = <<>> /\ cipher = <<>>
        /\ recovered = <<>> /\ passphrase = <<"k2">>

C29_ChaChaWitness ==
    pc = "decrypted" /\ engine = "chacha20" /\ plain = <<>> /\ cipher = <<>>
        /\ recovered = <<>> /\ nonce = <<1>>
-----------------------------------------------------------------------------
(* The page (index.ts).  Texts are tuples of character codes; a number is  *)
(* a pair <<sign, magnitude>>.                                             *)

(* Number.NaN, and the SyntaxError of BigInt(string) *)
NaN == <<0, <<>>>>

SyntaxError == <<0, <<0>>>>

isWhiteSpace(c) == c \in {9, 10, 11, 12, 13, 32}

(* The value of a character as a digit, 99 for any other character. *)
digitOf(c) ==
    CASE c >= 48 /\ c <= 57 -> c - 48
      [] c >= 97 /\ c <= 102 -> c - 87
      [] c >= 65 /\ c <= 70 -> c - 55
      [] OTHER -> 99

(* acc * radix for the radixes of the literals *)
timesRadix(acc, radix) ==
    CASE radix = 16 -> Shl(acc, 4)
      [] radix = 8 -> Shl(acc, 3)
      [] radix = 2 -> Shl(acc, 1)
      [] OTHER -> Add(Shl(acc, 3), Shl(acc, 1))

(* The number of leading characters of text, from position i, that are     *)
(* digits of the radix.                                                    *)
RECURSIVE digitRun(_, _, _)
digitRun(text, i, radix) ==
    IF i > Len(text) \/ digitOf(text[i]) >= radix THEN 0
    ELSE 1 + digitRun(text, i + 1, radix)

RECURSIVE digitsValue(_, _, _, _)
digitsValue(text, i, radix, acc) ==
    IF i > Len(text) THEN acc
    ELSE digitsValue(text, i + 1, radix,
                     Add(timesRadix(acc, radix), Big(digitOf(text[i]))))

RECURSIVE trimStart(_)
trimStart(text) ==
    IF text # <<>> /\ isWhiteSpace(text[1]) THEN trimStart(Tail(text)) ELSE text

trim(text) == Reverse(trimStart(Reverse(trimStart(text))))

signed(sign, magnitude) == IF magnitude = <<>> THEN <<1, <<>>>> ELSE <<sign, magnitude>>

(* A literal that is all digits of the radix, and at least one. *)
digitsOnly(text, radix, sign) ==
    IF text # <<>> /\ digitRun(text, 1, radix) = Len(text)
    THEN signed(sign, digitsValue(text, 1, radix, <<>>))
    ELSE SyntaxError

(* BigInt(string): white space is trimmed, the empty string is 0n, a       *)
(* literal is decimal digits with an optional sign, or digits after 0x, 0o *)
(* or 0b; anything else throws a SyntaxError.                              *)
StringToBigInt(text) ==
    LET t == trim(text)
        rest == SubSeq(t, 3, Len(t))
    IN  IF t = <<>> THEN <<1, <<>>>>
        ELSE IF Len(t) >= 2 /\ t[1] = 48 /\ t[2] \in {120, 88} THEN digitsOnly(rest, 16, 1)
        ELSE IF Len(t) >= 2 /\ t[1] = 48 /\ t[2] \in {111, 79} THEN digitsOnly(rest, 8, 1)
        ELSE IF Len(t) >= 2 /\ t[1] = 48 /\ t[2] \in {98, 66} THEN digitsOnly(rest, 2, 1)
        ELSE IF t[1] = 45 THEN digitsOnly(Tail(t), 10, -1)
        ELSE IF t[1] = 43 THEN digitsOnly(Tail(t), 10, 1)
        ELSE digitsOnly(t, 10, 1)

(* parseInt(string): leading white space and a sign are skipped, 0x        *)
(* selects radix 16, and the longest run of digits is the value; NaN when  *)
(* there is no digit.                                                      *)
parseInt(text) ==
    LET t == trimStart(text)
        sign == IF t # <<>> /\ t[1] = 45 THEN -1 ELSE 1
        body == IF t # <<>> /\ t[1] \in {43, 45} THEN Tail(t) ELSE t
        hex == Len(body) >= 2 /\ body[1] = 48 /\ body[2] \in {120, 88}
        radix == IF hex THEN 16 ELSE 10
        digits == IF hex THEN SubSeq(body, 3, Len(body)) ELSE body
        run == digitRun(digits, 1, radix)
    IN  IF run = 0 THEN NaN
        ELSE <<sign, digitsValue(SubSeq(digits, 1, run), 1, radix, <<>>)>>

(* parseInt(form.inputNonce.value || NaN): the empty text is falsy, and    *)
(* parseInt(NaN) reads the text "NaN".                                     *)
nonceOf(text) == IF text = <<>> THEN NaN ELSE parseInt(text)

(* Number.isNaN(nonce) ? 0n : BigInt(nonce) *)
nonceArgument(number) ==
    IF number = NaN THEN <<1, <<>>>> ELSE signed(number[1], number[2])

(* stringToBytes(str) *)
RECURSIVE stringToBytesLoop(_, _, _)
stringToBytesLoop(str, i, output) ==
    IF i > Len(str) THEN output
    ELSE stringToBytesLoop(str, i + 1, Add(Shl(output, 8), Big(str[i])))

stringToBytes(str) == stringToBytesLoop(str, 1, <<>>)

(* bytesToString(bytes) *)
RECURSIVE bytesToStringLoop(_, _)
bytesToStringLoop(bytes, output) ==
    IF bytes = <<>> THEN output
    ELSE bytesToStringLoop(Shr(bytes, 8), <<Digit(bytes, 1)>> \o output)

bytesToString(bytes) == bytesToStringLoop(bytes, <<>>)

(* bigint.toString(16) of a value that is not negative *)
hexCharacter(n) == IF n < 10 THEN 48 + n ELSE 87 + n

RECURSIVE hexCharacters(_, _)
hexCharacters(x, i) ==
    IF i = 0 THEN <<>>
    ELSE <<hexCharacter(x[i] \div 16), hexCharacter(x[i] % 16)>> \o hexCharacters(x, i - 1)

toString16(x) ==
    LET all == hexCharacters(x, Len(x))
    IN  IF x = <<>> THEN <<48>>
        ELSE IF all[1] = 48 THEN Tail(all) ELSE all

(* The nested try of the decrypt case: BigInt(`0x${inputString}`), then    *)
(* BigInt(inputString), then the error.                                    *)
decryptInput_Swallowed(inputString) ==
    LET first == StringToBigInt(<<48, 120>> \o inputString)
        second == StringToBigInt(inputString)
    IN  IF first # SyntaxError THEN first
        ELSE IF second # SyntaxError THEN second
        ELSE <<1, <<>>>>

decryptInput(inputString) ==
    LET first == StringToBigInt(<<48, 120>> \o inputString)
        second == StringToBigInt(inputString)
    IN  IF first # SyntaxError THEN first
        ELSE second

(* The engines of encryptionFunctions and decryptionFunctions, and what    *)
(* their calls resolve to.  The list of partial outputs is stood for by    *)
(* what it is computed from.                                               *)
Dispatched == {"twofish", "idea", "chacha20"}

twofishResults(type, messageHex, key) ==
    { The({ <<<<"twofish", type, messageHex, hk>>,
              IF type = "encrypt" THEN twofish_encrypt(messageHex, hk)
                                  ELSE twofish_decrypt(messageHex, hk),
              rk, hk>> : hk \in {BitAnd(hashKeyBySHA256(<<rk>>), BIT_128)} }) :
        rk \in OrElse(<<key>>, random128BitKey) }

ideaResults(type, messageHex, key) ==
    { The({ <<<<"idea", type, messageHex, hk>>,
              IF type = "encrypt" THEN idea_encrypt(messageHex, hk)
                                  ELSE idea_decrypt(messageHex, hk),
              rk, hk>> : hk \in {BitAnd(hashKeyBySHA256(<<rk>>), BIT_128)} }) :
        rk \in OrElse(<<key>>, idea_random128BitKey) }

chacha20Results(type, input, key, chachaNonce) ==
    { The({ <<<<"chacha20", type, input, keyBytes, chachaNonce>>,
              IF type = "encrypt" THEN chacha20_encrypt(input, keyBytes, chachaNonce, "traced")
                                  ELSE chacha20_decrypt(input, keyBytes, chachaNonce, "traced"),
              rk>> : keyBytes \in {hashKeyBySHA256(<<key>>)} }) :
        rk \in OrElse(<<key>>, random128BitKey) }

(* The engines read their input in loops while (blob > 0) only: a         *)
(* negative value ends the loop before its first pass, as 0 does.          *)
loopedBlob(bytes) == IF bytes[1] < 0 THEN <<>> ELSE bytes[2]

engineResults(call) ==
    CASE call.encryptionType = "twofish" ->
            twofishResults(call.type, loopedBlob(call.bytes), call.key)
      [] call.encryptionType = "idea" ->
            ideaResults(call.type, loopedBlob(call.bytes), call.key)
      [] call.encryptionType = "chacha20" ->
            chacha20Results(call.type, loopedBlob(call.bytes), call.key, call.nonce)

(* What the user can have in the form when the button is clicked. *)
UiKeys == {"", "k1"}

(* "", "1" and "1.5" *)
UiNonces == {<<>>, <<49>>, <<49, 46, 53>>}

(* "" and "Hi" *)
UiPlaintexts == {<<>>, <<72, 105>>}

(* "", "41", "0x41", " 4869 ", "zz", "1.5", "4 1", "-5" and "-0" *)
UiCiphertexts ==
    {<<>>, <<52, 49>>, <<48, 120, 52, 49>>, <<32, 52, 56, 54, 57, 32>>,
     <<122, 122>>, <<49, 46, 53>>, <<52, 32, 49>>, <<45, 53>>, <<45, 48>>}

(* The nonce field is hidden unless ChaCha20 is selected. *)
UiEngineNonces ==
    { <<e, n>> : e \in Dispatched, n \in UiNonces } \ { en \in Dispatched \X UiNonces :
                                                        en[1] # "chacha20" /\ en[2] # <<>> }

Clicks ==
    { [inputString |-> s, type |-> "encrypt", encryptionType |-> en[1], key |-> key,
       inputNonce |-> en[2]] :
        s \in UiPlaintexts, en \in UiEngineNonces, key \in UiKeys }
    \cup
    { [inputString |-> s, type |-> "decrypt", encryptionType |-> en[1], key |-> key,
       inputNonce |-> en[2]] :
        s \in UiCiphertexts, en \in { x \in UiEngineNonces : x[2] # <<49, 46, 53>> },
        key \in {"k1"} }

(* The arguments of the engine call of a click; bytes is the value with   *)
(* its sign.                                                               *)
callOf(click, bytes) ==
    [encryptionType |-> click.encryptionType, type |-> click.type, bytes |-> bytes,
     key |-> click.key, nonce |-> nonceArgument(nonceOf(click.inputNonce))[2]]

UiCalls ==
    { callOf(click, <<1, stringToBytes(click.inputString)>>) :
        click \in { c \in Clicks : c.type = "encrypt" } }
    \cup
    { callOf(click, decryptInput(click.inputString)) :
        click \in { c \in Clicks : c.type = "decrypt"
                                   /\ decryptInput(c.inputString) # SyntaxError } }

(* The calls of the page with what they resolve to. *)
UiReturns ==
    UNION { { <<call, result>> : result \in engineResults(call) } : call \in UiCalls }

awaited(call) == { r[2] : r \in { e \in UiReturns : e[1] = call } }

(* The message of the alert of the decrypt case. *)
NotValidHex == "The input string is not a valid hex value."

(* The page after the handler returned early. *)
returned(thePage, click, message) ==
    [thePage EXCEPT !.form = <<click>>, !.alert = message, !.called = <<>>,
                    !.passed = <<>>, !.thrown = FALSE]

(* The steps after the await: the process holder is filled, then the       *)
(* fields are written one by one; keyHash.toString(16) throws a TypeError  *)
(* when the result has no fourth element.                                  *)
displayed(thePage, click, bytes, result) ==
    LET upToKey == [thePage EXCEPT !.form = <<click>>, !.alert = "",
                                   !.called = <<result>>,
                                   !.passed = <<bytes>>,
                                   !.processHolder = result[1],
                                   !.inputResult = click.inputString,
                                   !.keyResult = result[3]]
    IN  IF Len(result) < 4 THEN [upToKey EXCEPT !.thrown = TRUE]
        ELSE [upToKey EXCEPT
                !.thrown = FALSE,
                !.keyHashResult = toString16(result[4]),
                !.outputResult = IF click.type = "encrypt" THEN toString16(result[2])
                                 ELSE bytesToString(result[2]),
                !.inputType = IF click.type = "encrypt" THEN "(Plaintext)"
                              ELSE "(Hexadecimal)",
                !.outputType = IF click.type = "encrypt" THEN "(Hexadecimal)"
                               ELSE "(Plaintext)"]

(* The click handler of runAlgorithmButton: the pages it can leave. *)
runAlgorithm(thePage, click) ==
    LET number == nonceOf(click.inputNonce)
        bytes == IF click.type = "encrypt" THEN <<1, stringToBytes(click.inputString)>>
                 ELSE decryptInput(click.inputString)
    IN  IF number = NaN /\ click.encryptionType = "chacha20"
        THEN {returned(thePage, click, "Please enter a valid nonce.")}
        ELSE IF click.encryptionType \notin Dispatched
        THEN {returned(thePage, click, "")}
        ELSE IF bytes = SyntaxError
        THEN {returned(thePage, click, NotValidHex)}
        ELSE { displayed(thePage, click, bytes, result) :
                 result \in awaited(callOf(click, bytes)) }

(* A click on the button. *)
RunAlgorithm ==
    /\ pc \in {"idle", "page"}
    /\ \E click \in Clicks : page' \in runAlgorithm(page, click)
    /\ pc' = "page"
    /\ UNCHANGED <<engine, variant, passphrase, nonce, resolvedKey, hashedKey, plain,
                   cipher, recovered, calls>>

NextUi == RunAlgorithm

SpecUi == Init /\ [][NextUi]_vars

(* C11: whatever engine a click dispatches to, the call resolves to four   *)
(* elements with the key hash among them, and the handler goes on to write *)
(* the output field without throwing.                                      *)
C11_OutputWritten ==
    pc = "page" /\ page.called # <<>> =>
        /\ Len(page.called[1]) = 4
        /\ ~page.thrown
        /\ page.outputResult =
              IF page.form[1].type = "encrypt" THEN toString16(page.called[1][2])
              ELSE bytesToString(page.called[1][2])

(* The same for the two engines that return the hashed key. *)
C11_TwoFishIdeaOutputWritten ==
    pc = "page" /\ page.called # <<>> /\ page.form[1].encryptionType # "chacha20" =>
        Len(page.called[1]) = 4 /\ ~page.thrown

(* The process log and the displayed fields. *)
Displayed(thePage) ==
    <<thePage.processHolder, thePage.inputResult, thePage.keyResult,
      thePage.keyHashResult, thePage.outputResult>>

(* C14: a click in decrypt mode whose input is a literal neither with 0x   *)
(* in front of it nor as it stands ends in an alert (the one of the input, *)
(* unless the nonce check of ChaCha20 stopped the click before), calls no  *)
(* engine and leaves the process log and the input, key, key hash and      *)
(* output fields as they were.                                             *)
C14_InvalidInputRejected ==
    [][ pc' = "page" /\ page'.form[1].type = "decrypt"
        /\ StringToBigInt(<<48, 120>> \o page'.form[1].inputString) = SyntaxError
        /\ StringToBigInt(page'.form[1].inputString) = SyntaxError
        => /\ page'.alert =
                IF nonceOf(page'.form[1].inputNonce) = NaN
                   /\ page'.form[1].encryptionType = "chacha20"
                THEN "Please enter a valid nonce." ELSE NotValidHex
           /\ page'.called = <<>>
           /\ ~page'.thrown
           /\ Displayed(page') = Displayed(page) ]_vars

(* An input was rejected on a page that shows the result of an earlier     *)
(* click.                                                                  *)
C14_Witness ==
    /\ pc = "page"
    /\ page.alert = NotValidHex
    /\ page.called = <<>>
    /\ page.processHolder # <<>>
    /\ page.outputResult # <<>>

(* C27: whatever input the handler accepts in decrypt mode, the value it   *)
(* passes to the decrypt function of the engine is not negative.           *)
C27_BlobNotNegative ==
    pc = "page" /\ page.passed # <<>> /\ page.form[1].type = "decrypt"
    => page.passed[1][1] = 1

(* The same for the inputs that do not start with a minus sign. *)
C27_NotNegativeWithoutSign ==
    pc = "page" /\ page.passed # <<>> /\ page.form[1].type = "decrypt"
        /\ trim(page.form[1].inputString) # <<>>
        /\ trim(page.form[1].inputString)[1] # 45
    => page.passed[1][1] = 1

C27_WithoutSignWitness ==
    pc = "page" /\ page.passed = << <<1, <<65>>>> >>
        /\ page.form[1].type = "decrypt"
        /\ page.form[1].inputString = <<52, 49>>
-----------------------------------------------------------------------------
(* Calls in flight.  encrypt and decrypt are async functions: a call runs  *)
(* to its await of the key hash, and from there to its return, without     *)
(* another call running in between; two callers may each have a call in    *)
(* flight.  A frame holds the parameters and the locals of one call.       *)

Callers == {1, 2}

NONCE_64 == Shl(<<1>>, 64)

NONCE_96 == Shl(<<1>>, 96)

(* The arguments of the calls: engine, function, input, key and nonce. *)
CallArgs ==
    { [engine |-> "twofish", type |-> t, input |-> <<105, 72>>, key |-> key, nonce |-> <<>>] :
        t \in {"encrypt", "decrypt"}, key \in {<<"k1">>, Undefined} }
    \cup
    { [engine |-> "idea", type |-> "encrypt", input |-> <<105, 72>>, key |-> key,
       nonce |-> <<>>] : key \in {<<"k1">>, <<"k2">>} }
    \cup
    { [engine |-> "chacha20", type |-> "encrypt", input |-> x, key |-> <<"k1">>, nonce |-> n] :
        x \in {<<65>>, <<33, 105, 72>>}, n \in {<<>>, <<1>>, NONCE_64, NONCE_96} }
    \cup
    { [engine |-> "chacha20", type |-> "decrypt", input |-> <<65>>, key |-> <<"k2">>,
       nonce |-> <<1>>] }

(* The strings key || random128BitKey() can give in an engine. *)
resolutions(engineName, key) ==
    OrElse(key, IF engineName = "idea" THEN idea_random128BitKey ELSE random128BitKey)

(* The frame of a call at its await: the parameters and resolvedKey. *)
startCall(args, rk) ==
    [IdleCall EXCEPT !.stage = "awaiting", !.engine = args.engine, !.type = args.type,
                     !.input = args.input, !.key = args.key, !.nonce = args.nonce,
                     !.resolvedKey = rk]

(* The frame of a call at its return. *)
resumeTwoFish(frame) ==
    The({ [frame EXCEPT !.stage = "returned", !.hashedKey = hk, !.returned = 4,
              !.output = IF frame.type = "encrypt" THEN twofish_encrypt(frame.input, hk)
                         ELSE twofish_decrypt(frame.input, hk)] :
            hk \in {BitAnd(hashKeyBySHA256(<<frame.resolvedKey>>), BIT_128)} })

resumeIdea(frame) ==
    The({ [frame EXCEPT !.stage = "returned", !.hashedKey = hk, !.returned = 4,
              !.output = IF frame.type = "encrypt" THEN idea_encrypt(frame.input, hk)
                         ELSE idea_decrypt(frame.input, hk)] :
            hk \in {BitAnd(hashKeyBySHA256(<<frame.resolvedKey>>), BIT_128)} })

(* The generator of a call is made in xorKeyStream and starts at the first *)
(* byte of the first block; consumed is what the call took from it.        *)
resumeChaCha(frame) ==
    The({ [frame EXCEPT !.stage = "returned", !.hashedKey = keyBytes, !.returned = 3,
              !.consumed = keyStream(keyBytes, frame.nonce, firstCounter("traced"),
                                     Len(chacha_extractBytesFromBlob(frame.input))),
              !.firstBlock = chaChaBlock(keyBytes, frame.nonce, <<1>>),
              !.output = IF frame.type = "encrypt"
                         THEN chacha20_encrypt(frame.input, keyBytes, frame.nonce, "traced")
                         ELSE chacha20_decrypt(frame.input, keyBytes, frame.nonce, "traced")] :
            keyBytes \in {hashKeyBySHA256(frame.key)} })

resumeCall(frame) ==
    CASE frame.engine = "twofish" -> resumeTwoFish(frame)
      [] frame.engine = "idea" -> resumeIdea(frame)
      [] frame.engine = "chacha20" -> resumeChaCha(frame)

(* The frames at the await, with the frame each returns with. *)
ResolvedKeys == UNION { resolutions(args.engine, args.key) : args \in CallArgs }

Resumed ==
    { <<frame, resumeCall(frame)>> :
        frame \in { startCall(args, rk) : args \in CallArgs, rk \in ResolvedKeys } }

resumed(frame) == The({ r[2] : r \in { e \in Resumed : e[1] = frame } })

(* The locals a call continues with after its await are its own. *)
frameOf_LastResolved(inFlight, c) ==
    IF inFlight[3 - c].stage = "awaiting"
    THEN [inFlight[c] EXCEPT !.resolvedKey = inFlight[3 - c].resolvedKey,
                             !.nonce = inFlight[3 - c].nonce]
    ELSE inFlight[c]

frameOf(inFlight, c) == inFlight[c]

(* A caller calls encrypt or decrypt; the call runs to its await. *)
StartCall ==
    /\ pc \in {"idle", "calls"}
    /\ \E c \in Callers, args \in CallArgs :
          /\ calls[c].stage # "awaiting"
          /\ \E rk \in resolutions(args.engine, args.key) :
                calls' = [calls EXCEPT ![c] = startCall(args, rk)]
    /\ pc' = "calls"
    /\ UNCHANGED <<engine, variant, passphrase, nonce, resolvedKey, hashedKey, plain,
                   cipher, recovered, page>>

(* The key hash of a call resolves; the call runs to its return. *)
ResumeCall ==
    /\ pc = "calls"
    /\ \E c \in Callers :
          /\ calls[c].stage = "awaiting"
          /\ calls' = [calls EXCEPT ![c] = resumed(frameOf(calls, c))]
    /\ UNCHANGED <<pc, engine, variant, passphrase, nonce, resolvedKey, hashedKey, plain,
                   cipher, recovered, page>>

NextCalls ==
    \/ StartCall
    \/ ResumeCall

SpecCalls == Init /\ [][NextCalls]_vars

(* What a call with the arguments of the frame returns when it runs alone. *)
argsOf(frame) ==
    [engine |-> frame.engine, type |-> frame.type, input |-> frame.input,
     key |-> frame.key, nonce |-> frame.nonce]

alone(args) ==
    { resumed(startCall(args, rk)) : rk \in resolutions(args.engine, args.key) }

IsPrefix(s, t) == Len(s) <= Len(t) /\ s = SubSeq(t, 1, Len(s))

ChaChaReturned(c) == calls[c].stage = "returned" /\ calls[c].engine = "chacha20"

C12_KeyStreamPerCall96 ==
    \A a \in Callers, b \in Callers :
        /\ ChaChaReturned(a) /\ ChaChaReturned(b)
        /\ calls[a].hashedKey = calls[b].hashedKey
        /\ Len(calls[a].nonce) <= 12 /\ Len(calls[b].nonce) <= 12
        => IF calls[a].nonce = calls[b].nonce
           THEN IsPrefix(calls[a].consumed, calls[b].consumed)
                \/ IsPrefix(calls[b].consumed, calls[a].consumed)
           ELSE calls[a].firstBlock # calls[b].firstBlock

-----------------------------------------------------------------------------
(* Every call of every engine. *)
Next ==
    \/ NextTwoFish
    \/ NextTwoFishParts
    \/ NextIdea
    \/ NextIdeaKeys
    \/ NextChaCha
    \/ NextDes
    \/ NextSplit
    \/ NextUi
    \/ NextCalls

Spec == Init /\ [][Next]_vars

====
